---- MODULE Spec2Model ----
(***************************************************************************)
(* Model of vaultops: the retry loop of main(), the vault_setup pipeline   *)
(* (initialize, unseal, find ready node, root token, raft reconcile, ...), *)
(* the topology resolver build_raft_server_nodes_map and the retry-join    *)
(* projection of the inventory plugin.                                     *)
(*                                                                         *)
(* The Vault cluster and the object storage are the environment.  A node   *)
(* is uninitialized, or initialized and sealed, or initialized and         *)
(* unsealed; a node that was told to join the Raft cluster while sealed    *)
(* becomes a Raft member when it is unsealed (Shamir seal).  The active    *)
(* node of the cluster is the Raft leader.                                 *)
(***************************************************************************)
EXTENDS Integers, Sequences, FiniteSets, TLC

\* ------------------------------------------------------------------ bounds
NumNodes == 3
MaxShares == 2
MaxFaults == 1
MaxPort == 4
MaxContentLen == 1
MaxCalls == 2
MaxTokenLen == 3
MaxAccessors == 2

\* --------------------------------------------------------- program constants
DefaultMaxVaultopsRetries == 5
MaxVaultopsRetryWait == 10
ClientCertValidDays == 90

Nodes == 1..NumNodes
NoNode == 0

\* Days until the root CA certificate expires, as the environment may have it.
RootCaDaysChoices == {30, 365}

VARIABLES
    \* main()
    pc, max_vaultops_retries, outcome,
    \* history of main(): attempts made, seconds slept, how the last attempt ended
    attempts, wait_seconds, exc_kind, exc_reason,
    \* the environment of the run, fixed at start
    scenario, operator, root_ca_days_left, faults_allowed, faults_used,
    \* the Vault cluster
    initialized, sealed, raft_servers, leader, pending_join, admin_user_exists,
    valid_root_tokens, secret_threshold,
    \* the storage backend
    stored_unseal_keys, tf_state, raft_snapshot_saved,
    \* locals of one vault_setup attempt
    \* (is_authenticated: what the call answered on each node's session)
    ready_node, vault_sudo_token, node_token, is_authenticated,
    \* the token cached in the HA client, and the requests made through it
    ha_token, ha_requests,
    \* how often add_admin_user_policy ran
    admin_user_calls,
    \* calls issued to the cluster during the run
    init_calls, unseal_calls, join_calls, join_raft_cluster, remove_calls, root_generations,
    \* topology resolution
    vault_servers, server_raft_nodes, retry_join_nodes,
    \* library calls checked on their own: the bucket behind storage_ops, the last
    \* content passed for each key, the arguments and the result of the last call
    s3_bucket, s3_written, lib_call, lib_result,
    \* the root generation in progress on the ready node, for regenerate_root_token
    \* checked on its own
    root_generation

mainVars == <<pc, max_vaultops_retries, outcome, attempts, wait_seconds, exc_kind, exc_reason>>
envVars == <<scenario, operator, root_ca_days_left, faults_allowed>>
clusterVars == <<initialized, sealed, raft_servers, leader, pending_join, admin_user_exists,
                 valid_root_tokens, secret_threshold>>
storageVars == <<stored_unseal_keys, tf_state, raft_snapshot_saved>>
localVars == <<ready_node, vault_sudo_token, node_token, is_authenticated, ha_token>>
callVars == <<init_calls, unseal_calls, join_calls, join_raft_cluster, remove_calls, root_generations,
              ha_requests, admin_user_calls>>
topoVars == <<vault_servers, server_raft_nodes, retry_join_nodes>>
libVars == <<s3_bucket, s3_written, lib_call, lib_result, root_generation>>
vars == <<mainVars, envVars, faults_used, clusterVars, storageVars, localVars, callVars, topoVars,
          libVars>>

\* =================================================================== helpers
TopologyOrder == [i \in 1..NumNodes |-> i]
StaleNodeId == NumNodes + 1
ExpectedClusterAddress(n) == <<"cluster_addr", n>>
WrongClusterAddress == <<"cluster_addr", NoNode>>
RaftServerNodeIds(servers) == {s.node_id : s \in servers}

\* Faulty variant of Lower: the answer is compared as typed.
LowerAsTyped(s) == s

\* str.lower() on the answers the operator may type
Lower(s) == CASE s = "YES" -> "yes" [] s = "Yes" -> "yes" [] s = "NO" -> "no" [] OTHER -> s
OperatorAnswers == {"yes", "YES", "no", ""}

\* ------------------------------------------- certificate configuration checks
\* Faulty variant of GenerateX590CertificateError: every property combination is accepted.
GenerateX590CertificateErrorNone(p, has_ca, ca_days_left) == "none"

\* The property combinations generate_x590_certificate rejects, in its order.
\* "none" when the properties are accepted.
GenerateX590CertificateError(p, has_ca, ca_days_left) ==
    CASE ~p.name /\ ~has_ca -> "name_required"
      [] ~p.authority_key_identifier /\ p.authority_key_identifier_critical
             -> "authority_key_identifier_critical_without_base"
      [] p.authority_key_identifier /\ ~has_ca -> "authority_key_identifier_without_ca"
      [] ~p.subject_key_identifier /\ p.subject_key_identifier_critical
             -> "subject_key_identifier_critical_without_base"
      [] ~p.key_usage /\ p.key_usage_critical -> "key_usage_critical_without_base"
      [] ~p.extended_key_usage /\ p.extended_key_usage_critical
             -> "extended_key_usage_critical_without_base"
      [] ~p.basic_constraints /\ p.basic_constraints_critical
             -> "basic_constraints_critical_without_base"
      [] ~p.subject_alternative_name /\ p.subject_alternative_name_critical
             -> "subject_alternative_name_critical_without_base"
      [] p.not_valid_after = 0 -> "not_valid_after_required"
      [] has_ca /\ p.not_valid_after > ca_days_left -> "ca_expires_before_certificate"
      [] OTHER -> "none"

\* Faulty variant of CertificateErrorKind: a class main() does not retry.
CertificateErrorKindFatal == "generic"

\* The exception class the certificate component raises for a rejected combination.
CertificateErrorKind == "retry"

\* The properties vault_setup requests for every node client and for the HA client.
ClientCertificateProperties ==
    [name |-> TRUE,
     authority_key_identifier |-> FALSE, authority_key_identifier_critical |-> FALSE,
     subject_key_identifier |-> FALSE, subject_key_identifier_critical |-> FALSE,
     key_usage |-> TRUE, key_usage_critical |-> TRUE,
     extended_key_usage |-> TRUE, extended_key_usage_critical |-> TRUE,
     basic_constraints |-> TRUE, basic_constraints_critical |-> FALSE,
     subject_alternative_name |-> TRUE, subject_alternative_name_critical |-> FALSE,
     not_valid_after |-> ClientCertValidDays, set_public_key |-> TRUE]

\* ------------------------------------------------------------------- main()
\* Faulty variant of MainExcept: waits and loops even when no retries are left.
MainExceptWaitsAfterLastAttempt(kind, retries_left) ==
    CASE kind = "retry" -> [pc |-> "sleep", outcome |-> "running"]
      [] kind = "safe_exit" -> [pc |-> "done", outcome |-> "exit0"]
      [] kind = "interrupt" -> [pc |-> "done", outcome |-> "exit1"]
      [] OTHER -> [pc |-> "done", outcome |-> "raised"]

\* Faulty variant of MainExcept: any other exception is handled like VaultOpsRetryError.
MainExceptRetriesGeneric(kind, retries_left) ==
    CASE kind = "safe_exit" -> [pc |-> "done", outcome |-> "exit0"]
      [] kind = "interrupt" -> [pc |-> "done", outcome |-> "exit1"]
      [] OTHER -> IF retries_left > 0
                  THEN [pc |-> "sleep", outcome |-> "running"]
                  ELSE [pc |-> "done", outcome |-> "raised"]

\* Faulty variant of MainExcept: KeyboardInterrupt is handled like VaultOpsRetryError.
MainExceptRetriesInterrupt(kind, retries_left) ==
    CASE kind \in {"retry", "interrupt"} ->
               IF retries_left > 0
               THEN [pc |-> "sleep", outcome |-> "running"]
               ELSE [pc |-> "done", outcome |-> "raised"]
      [] kind = "safe_exit" -> [pc |-> "done", outcome |-> "exit0"]
      [] OTHER -> [pc |-> "done", outcome |-> "raised"]

\* The except clauses of main(): where control goes for each exception class.
MainExcept(kind, retries_left) ==
    CASE kind = "retry" -> IF retries_left > 0
                           THEN [pc |-> "sleep", outcome |-> "running"]
                           ELSE [pc |-> "done", outcome |-> "raised"]
      [] kind = "safe_exit" -> [pc |-> "done", outcome |-> "exit0"]
      [] kind = "interrupt" -> [pc |-> "done", outcome |-> "exit1"]
      [] OTHER -> [pc |-> "done", outcome |-> "raised"]

\* An exception of class `kind` leaves vault_setup and reaches main().
Raise(kind, reason) ==
    LET h == MainExcept(kind, max_vaultops_retries) IN
    /\ pc' = h.pc
    /\ outcome' = h.outcome
    /\ exc_kind' = kind
    /\ exc_reason' = reason
    /\ UNCHANGED <<max_vaultops_retries, attempts, wait_seconds>>

\* vault_setup goes on to its next statement.
Continue(next) ==
    /\ pc' = next
    /\ UNCHANGED <<max_vaultops_retries, outcome, attempts, wait_seconds, exc_kind, exc_reason>>

\* while max_vaultops_retries > 0: one more attempt starts.
WhileCondition(retries_left) == retries_left > 0

MainLoop ==
    /\ pc = "main"
    /\ IF WhileCondition(max_vaultops_retries)
       THEN /\ max_vaultops_retries' = max_vaultops_retries - 1
            /\ attempts' = attempts + 1
            /\ pc' = "create_clients"
            /\ exc_kind' = "none"
            /\ exc_reason' = "none"
            /\ UNCHANGED <<outcome, wait_seconds>>
       ELSE /\ pc' = "done"
            /\ outcome' = "returned"
            /\ UNCHANGED <<max_vaultops_retries, attempts, wait_seconds, exc_kind, exc_reason>>
    /\ ready_node' = NoNode
    /\ vault_sudo_token' = "none"
    /\ node_token' = [n \in Nodes |-> "none"]
    /\ is_authenticated' = [n \in Nodes |-> "not_called"]
    /\ ha_token' = "none"
    /\ UNCHANGED <<envVars, faults_used, clusterVars, storageVars, callVars, topoVars>>
    /\ UNCHANGED libVars

\* time.sleep(max_vaultops_retry_wait) in the VaultOpsRetryError handler
RetrySleep ==
    /\ pc = "sleep"
    /\ pc' = "main"
    /\ wait_seconds' = wait_seconds + MaxVaultopsRetryWait
    /\ UNCHANGED <<max_vaultops_retries, outcome, attempts, exc_kind, exc_reason>>
    /\ UNCHANGED <<envVars, faults_used, clusterVars, storageVars, localVars, callVars, topoVars>>
    /\ UNCHANGED libVars

\* ============================================================== vault_setup
\* Faulty variant of HasUnsealKeys: the stored keys are never found.
HasUnsealKeysNever(keys) == FALSE

\* vault_config.unseal_keys() read: None when the key is missing or empty.
HasUnsealKeys(keys) == keys > 0

\* build_vault_config, root CA load, create_raft_node_hvac, create_ha_client:
\* one client certificate per node and one for the HA client, signed by the root CA.
CreateClients ==
    /\ pc = "create_clients"
    /\ LET err == GenerateX590CertificateError(ClientCertificateProperties, TRUE,
                                               root_ca_days_left)
       IN IF err # "none" THEN Raise(CertificateErrorKind, err)
                          ELSE Continue("initialize_vault")
    /\ UNCHANGED <<envVars, faults_used, clusterVars, storageVars, localVars, callVars, topoVars>>
    /\ UNCHANGED libVars

\* Faulty variant of UnsealKeys: nothing is written.
UnsealKeysNotWritten(stored, unseal_keys) == stored

\* vault_config.unseal_keys(unseal_keys): what storage holds afterwards. Truthy
\* material is written under vault_unseal_keys.yml, without it the call only reads.
UnsealKeys(stored, unseal_keys) == IF HasUnsealKeys(unseal_keys) THEN unseal_keys ELSE stored

\* Faulty variant of InitializeVaultDecision: an existing Terraform state is not checked.
InitializeVaultDecisionIgnoringTfState(any_initialized, keys, tf, op) ==
    IF any_initialized THEN <<"skip", "none">>
    ELSE IF keys > 0 THEN <<"retry", "unseal_keys_without_init">>
    ELSE IF Lower(op.answer) # "yes" THEN <<"safe_exit", "operator_declined">>
    ELSE IF op.shares < 1 \/ op.threshold < 1 THEN <<"generic", "key_shares_not_positive">>
    ELSE IF op.shares < op.threshold THEN <<"generic", "shares_less_than_threshold">>
    ELSE <<"initialize", "none">>

\* Faulty variant of InitializeVaultDecision: leftovers in storage raise ValueError.
InitializeVaultDecisionFatal(any_initialized, keys, tf, op) ==
    IF any_initialized THEN <<"skip", "none">>
    ELSE IF keys > 0 THEN <<"generic", "unseal_keys_without_init">>
    ELSE IF tf THEN <<"generic", "tf_state_exists">>
    ELSE IF Lower(op.answer) # "yes" THEN <<"safe_exit", "operator_declined">>
    ELSE IF op.shares < 1 \/ op.threshold < 1 THEN <<"generic", "key_shares_not_positive">>
    ELSE IF op.shares < op.threshold THEN <<"generic", "shares_less_than_threshold">>
    ELSE <<"initialize", "none">>

\* Faulty variant of InitializeVaultDecision: unseal keys left in storage are not checked.
InitializeVaultDecisionIgnoringKeys(any_initialized, keys, tf, op) ==
    IF any_initialized THEN <<"skip", "none">>
    ELSE IF tf THEN <<"retry", "tf_state_exists">>
    ELSE IF Lower(op.answer) # "yes" THEN <<"safe_exit", "operator_declined">>
    ELSE IF op.shares < 1 \/ op.threshold < 1 THEN <<"generic", "key_shares_not_positive">>
    ELSE IF op.shares < op.threshold THEN <<"generic", "shares_less_than_threshold">>
    ELSE <<"initialize", "none">>

\* What initialize_vault decides before it touches a node:
\* "skip", an exception <<kind, reason>>, or "initialize".
InitializeVaultDecision(any_initialized, keys, tf, op) ==
    IF any_initialized THEN <<"skip", "none">>
    ELSE IF HasUnsealKeys(keys) THEN <<"retry", "unseal_keys_without_init">>
    ELSE IF tf THEN <<"retry", "tf_state_exists">>
    ELSE IF Lower(op.answer) # "yes" THEN <<"safe_exit", "operator_declined">>
    ELSE IF op.shares < 1 \/ op.threshold < 1 THEN <<"generic", "key_shares_not_positive">>
    ELSE IF op.shares < op.threshold THEN <<"generic", "shares_less_than_threshold">>
    ELSE <<"initialize", "none">>

InitializeVault ==
    /\ pc = "initialize_vault"
    /\ LET d == InitializeVaultDecision(\E n \in Nodes : initialized[n], stored_unseal_keys,
                                        tf_state, operator)
           init_node_id == TopologyOrder[1]
       IN CASE d[1] = "skip" ->
                 /\ Continue("unseal_vault")
                 /\ UNCHANGED <<clusterVars, storageVars, callVars, faults_used>>
            [] d[1] = "initialize" ->
                 /\ initialized' = [initialized EXCEPT ![init_node_id] = TRUE]
                 /\ secret_threshold' = operator.threshold
                 /\ raft_servers' = {[node_id |-> init_node_id,
                                      address |-> ExpectedClusterAddress(init_node_id)]}
                 /\ init_calls' = Append(init_calls, init_node_id)
                 /\ \/ /\ stored_unseal_keys' = UnsealKeys(stored_unseal_keys, operator.shares)
                       /\ Continue("unseal_vault")
                       /\ UNCHANGED faults_used
                    \/ \* sys.initialize returned, then vault_config.unseal_keys(init_response)
                       \* fails in the storage backend or the operator presses Ctrl-C
                       /\ faults_used < faults_allowed
                       /\ faults_used' = faults_used + 1
                       /\ \E kind \in {"generic", "interrupt"} : Raise(kind, "unseal_keys_not_saved")
                       /\ UNCHANGED stored_unseal_keys
                 /\ UNCHANGED <<sealed, leader, pending_join, admin_user_exists,
                                valid_root_tokens, tf_state, raft_snapshot_saved,
                                unseal_calls, join_calls, join_raft_cluster, remove_calls, root_generations,
                                ha_requests, admin_user_calls>>
            [] OTHER ->
                 /\ Raise(d[1], d[2])
                 /\ UNCHANGED <<clusterVars, storageVars, callVars, faults_used>>
    /\ UNCHANGED <<envVars, localVars, topoVars>>
    /\ UNCHANGED libVars

\* Raft elects a leader only while a majority of the members is unsealed.
HasQuorum(members, up) == 2 * Cardinality(up) > Cardinality(members)

\* Faulty variant of NodesToUnseal: every sealed node, initialized or not.
NodesToUnsealIncludingUninitialized == {n \in Nodes : sealed[n]}

\* The nodes unseal_vault submits keys to: initialized and sealed.
NodesToUnseal == {n \in Nodes : initialized[n] /\ sealed[n]}

\* submit_unseal_keys with every stored key: the node opens when they reach the threshold.
UnsealSucceeds(keys) == keys >= secret_threshold

UnsealVault ==
    /\ pc = "unseal_vault"
    /\ IF NodesToUnseal # {} /\ ~HasUnsealKeys(stored_unseal_keys)
       THEN /\ Raise("retry", "unseal_keys_not_found")
            /\ UNCHANGED <<clusterVars, callVars>>
       ELSE LET opened == IF UnsealSucceeds(stored_unseal_keys) THEN NodesToUnseal ELSE {}
                joined == opened \cap pending_join
                members == raft_servers \cup
                           {[node_id |-> n, address |-> ExpectedClusterAddress(n)] : n \in joined}
                up == {n \in RaftServerNodeIds(members) \cap Nodes : n \notin NodesToUnseal \/ n \in opened}
            IN /\ sealed' = [n \in Nodes |-> IF n \in opened THEN FALSE ELSE sealed[n]]
               /\ unseal_calls' = unseal_calls \cup NodesToUnseal
               /\ pending_join' = pending_join \ joined
               /\ raft_servers' = members
               /\ IF leader # NoNode \/ ~HasQuorum(members, up)
                  THEN leader' = leader
                  ELSE \E l \in up : leader' = l
               /\ Continue("find_ready")
               /\ UNCHANGED <<initialized, admin_user_exists, valid_root_tokens, secret_threshold,
                              init_calls, join_calls, join_raft_cluster, remove_calls, root_generations,
                              ha_requests, admin_user_calls>>
    /\ UNCHANGED <<envVars, faults_used, storageVars, localVars, topoVars>>
    /\ UNCHANGED libVars

\* Faulty variant of NodeIsReady: a standby node is taken as ready.
NodeIsReadyIgnoringStandby(n) == initialized[n] /\ ~sealed[n]

\* The health a node reports to find_ready.
NodeIsReady(n) == initialized[n] /\ ~sealed[n] /\ n = leader

\* First node of the topology order that is ready, NoNode when there is none.
FirstReady ==
    IF \E i \in 1..NumNodes : NodeIsReady(TopologyOrder[i])
    THEN TopologyOrder[CHOOSE i \in 1..NumNodes :
                          /\ NodeIsReady(TopologyOrder[i])
                          /\ \A j \in 1..(i - 1) : ~NodeIsReady(TopologyOrder[j])]
    ELSE NoNode

FindReady ==
    /\ pc = "find_ready"
    /\ \/ /\ FirstReady # NoNode
          /\ ready_node' = FirstReady
          /\ Continue("root_token")
          /\ UNCHANGED faults_used
       \/ /\ FirstReady = NoNode
          /\ Raise("retry", "no_ready_node")
          /\ UNCHANGED <<ready_node, faults_used>>
       \/ \* the active node has not taken over yet and still reports standby
          /\ faults_used < faults_allowed
          /\ faults_used' = faults_used + 1
          /\ Raise("retry", "no_ready_node")
          /\ UNCHANGED ready_node
    /\ UNCHANGED <<envVars, clusterVars, storageVars, vault_sudo_token, node_token,
                   is_authenticated, ha_token, callVars, topoVars>>
    /\ UNCHANGED libVars

\* Faulty variant of HvacClient: the cached session is handed out as it is.
HvacClientWithoutLogin(token, user_exists) == [token |-> token, login |-> FALSE]

\* Faulty variant of HvacClient: every call logs in.
HvacClientLoginAlways(token, user_exists) ==
    [token |-> IF user_exists THEN "valid" ELSE "login_failed", login |-> TRUE]

\* VaultHaClient.hvac_client(): a session that is not authenticated logs in with the
\* admin user's password before the client is handed out; the login fails when the
\* admin user does not exist.
HvacClient(token, user_exists) ==
    IF token = "valid" THEN [token |-> "valid", login |-> FALSE]
    ELSE [token |-> IF user_exists THEN "valid" ELSE "login_failed", login |-> TRUE]

\* Root token rotation: regenerate_root_token when unseal keys are stored, else the
\* session token of the HA client (userpass login of the admin user).
RootToken ==
    /\ pc = "root_token"
    /\ IF HasUnsealKeys(stored_unseal_keys)
       THEN IF stored_unseal_keys < secret_threshold
            THEN /\ Raise("retry", "not_enough_unseal_keys")
                 /\ UNCHANGED <<vault_sudo_token, valid_root_tokens, root_generations, ha_token,
                                ha_requests>>
            ELSE /\ vault_sudo_token' = "new_root"
                 /\ valid_root_tokens' = valid_root_tokens + 1
                 /\ root_generations' = root_generations + 1
                 /\ Continue("update_clients")
                 /\ UNCHANGED <<ha_token, ha_requests>>
       ELSE LET client == HvacClient(ha_token, admin_user_exists)
            IN IF client.token # "login_failed"
               THEN /\ vault_sudo_token' = "ha_session"
                    /\ ha_token' = client.token
                    /\ ha_requests' = ha_requests \cup {[step |-> "root_token",
                                                          token |-> client.token,
                                                          login |-> client.login]}
                    /\ Continue("update_clients")
                    /\ UNCHANGED <<valid_root_tokens, root_generations>>
               ELSE /\ Raise("generic", "userpass_login_failed")
                    /\ UNCHANGED <<vault_sudo_token, valid_root_tokens, root_generations,
                                   ha_token, ha_requests>>
    /\ UNCHANGED <<envVars, faults_used, initialized, sealed, raft_servers, leader, pending_join,
                   admin_user_exists, secret_threshold, storageVars, ready_node, node_token,
                   is_authenticated, init_calls, unseal_calls, join_calls, join_raft_cluster,
                   remove_calls, admin_user_calls, topoVars>>
    /\ UNCHANGED libVars

\* Faulty variant of SkipsNode: no node is skipped.
SkipsNodeNever(node_sealed, node_initialized) == FALSE

\* if hvac_client.sys.is_sealed() or not hvac_client.sys.is_initialized(): continue
SkipsNode(node_sealed, node_initialized) == node_sealed \/ ~node_initialized

\* update_client_with_root_token: sealed or uninitialized nodes are skipped; on the
\* others the token is set and is_authenticated() is called, its answer or its
\* exception logged. A node that stops answering or refuses the lookup makes the call
\* answer False or raise.
UpdateClientWithRootToken ==
    /\ pc = "update_clients"
    /\ LET updated == {n \in Nodes : ~SkipsNode(sealed[n], initialized[n])}
       IN /\ node_token' = [n \in Nodes |->
                              IF n \in updated THEN vault_sudo_token ELSE node_token[n]]
          /\ \/ /\ is_authenticated' = [n \in Nodes |->
                        IF n \in updated THEN "true" ELSE is_authenticated[n]]
                /\ UNCHANGED faults_used
             \/ /\ faults_used < faults_allowed
                /\ faults_used' = faults_used + 1
                /\ \E failing \in updated, answer \in {"false", "raised"} :
                     is_authenticated' = [n \in Nodes |->
                        IF n = failing THEN answer
                        ELSE IF n \in updated THEN "true" ELSE is_authenticated[n]]
    /\ Continue("remove_raft_nodes")
    /\ UNCHANGED <<envVars, clusterVars, storageVars, ready_node, vault_sudo_token, ha_token,
                   callVars, topoVars>>
    /\ UNCHANGED libVars

\* Faulty variant of NodesToRemove: members advertising another address go as well.
NodesToRemoveWithWrongAddress(servers) ==
    {s.node_id : s \in {m \in servers : \/ m.node_id \notin Nodes
                                       \/ m.address # ExpectedClusterAddress(m.node_id)}}

\* The member IDs _remove_raft_nodes calls remove_raft_node for.
NodesToRemove(servers) == RaftServerNodeIds(servers) \ Nodes

\* _remove_raft_nodes: members the topology does not name are removed.
RemoveRaftNodes ==
    /\ pc = "remove_raft_nodes"
    /\ LET unmatched == NodesToRemove(raft_servers)
       IN /\ remove_calls' = remove_calls \cup unmatched
          /\ raft_servers' = {s \in raft_servers : s.node_id \notin unmatched}
    /\ Continue("add_raft_nodes")
    /\ UNCHANGED <<envVars, faults_used, initialized, sealed, leader, pending_join,
                   admin_user_exists, valid_root_tokens, secret_threshold, storageVars, localVars,
                   init_calls, unseal_calls, join_calls, join_raft_cluster, root_generations, ha_requests,
                   admin_user_calls,
                   topoVars>>
    /\ UNCHANGED libVars

\* Faulty variant of NodesToJoin: every topology node is told to join.
NodesToJoinAll(servers) == Nodes

\* Faulty variant of NodesToJoin: no node is ever told to join.
NodesToJoinNone(servers) == {}

\* The topology nodes _add_raft_nodes calls join_raft_cluster on.
NodesToJoin(servers) == Nodes \ RaftServerNodeIds(servers)

\* api_addr of a node.
ApiAddr(n) == <<"api_addr", n>>

\* _add_raft_nodes: every joining node is called on its own client with the API address
\* of the member flagged leader; it is initialized by the join and stays sealed.
AddRaftNodes ==
    /\ pc = "add_raft_nodes"
    /\ LET joining == NodesToJoin(raft_servers)
       IN /\ join_calls' = join_calls \cup joining
          /\ join_raft_cluster' = {[client |-> n, leader_api_addr |-> ApiAddr(leader)] :
                                       n \in joining}
          /\ initialized' = [n \in Nodes |-> initialized[n] \/ n \in joining]
          /\ pending_join' = pending_join \cup {n \in joining : sealed[n]}
          /\ raft_servers' = raft_servers \cup
                 {[node_id |-> n, address |-> ExpectedClusterAddress(n)] :
                      n \in {m \in joining : ~sealed[m]}}
    /\ Continue("validate_raft_nodes")
    /\ UNCHANGED <<envVars, faults_used, sealed, leader, admin_user_exists, valid_root_tokens,
                   secret_threshold, storageVars, localVars, init_calls, unseal_calls,
                   remove_calls, root_generations, ha_requests, admin_user_calls, topoVars>>
    /\ UNCHANGED libVars

\* Faulty variant of ValidateRaftNodesResult: the advertised address is not compared.
ValidateRaftNodesIgnoringAddress(servers) ==
    IF \E s \in servers : s.node_id \notin Nodes THEN "member_not_in_inventory"
    ELSE IF Nodes \ RaftServerNodeIds(servers) # {} THEN "nodes_not_in_raft_servers"
    ELSE "ok"

\* _validate_raft_nodes: "ok" or the reason of the VaultOpsRetryError it raises.
ValidateRaftNodesResult(servers) ==
    IF \E s \in servers : s.node_id \notin Nodes THEN "member_not_in_inventory"
    ELSE IF \E s \in servers : s.address # ExpectedClusterAddress(s.node_id)
         THEN "cluster_address_mismatch"
    ELSE IF Nodes \ RaftServerNodeIds(servers) # {} THEN "nodes_not_in_raft_servers"
    ELSE "ok"

ValidateRaftNodes ==
    /\ pc = "validate_raft_nodes"
    /\ LET r == ValidateRaftNodesResult(raft_servers)
       IN IF r = "ok" THEN Continue("admin_user") ELSE Raise("retry", r)
    /\ UNCHANGED <<envVars, faults_used, clusterVars, storageVars, localVars, callVars, topoVars>>
    /\ UNCHANGED libVars

\* Faulty variant of AdminUserPolicyRuns: the policy, mount and user are written always.
AdminUserPolicyRunsAlways(has_keys) == TRUE

\* if vault_config.unseal_keys(): add_admin_user_policy(...), else only a log line.
AdminUserPolicyRuns(has_keys) == has_keys

\* The admin-policy statement of vault_setup: add_admin_user_policy writes the policy,
\* enables and tunes the userpass mount and writes the admin user.
AddAdminUserPolicy ==
    /\ pc = "admin_user"
    /\ IF AdminUserPolicyRuns(HasUnsealKeys(stored_unseal_keys))
       THEN /\ admin_user_exists' = TRUE
            /\ admin_user_calls' = admin_user_calls + 1
       ELSE UNCHANGED <<admin_user_exists, admin_user_calls>>
    /\ Continue("root_pki")
    /\ UNCHANGED <<envVars, faults_used, initialized, sealed, raft_servers, leader, pending_join,
                   valid_root_tokens, secret_threshold, storageVars, localVars, init_calls,
                   unseal_calls, join_calls, join_raft_cluster, remove_calls, root_generations,
                   ha_requests, topoVars>>
    /\ UNCHANGED libVars

\* What a step that works through vault_ha_client.hvac_client() leaves in the client
\* and in the request log; the step fails when the login does.
UseHaClient(step, next) ==
    LET client == HvacClient(ha_token, admin_user_exists)
    IN IF client.token = "login_failed"
       THEN /\ Raise("generic", "userpass_login_failed")
            /\ UNCHANGED <<ha_token, ha_requests>>
       ELSE /\ ha_token' = client.token
            /\ ha_requests' = ha_requests \cup {[step |-> step, token |-> client.token,
                                               login |-> client.login]}
            /\ next

LocalsOfAttempt == <<ready_node, vault_sudo_token, node_token, is_authenticated>>
ClusterCalls == <<init_calls, unseal_calls, join_calls, join_raft_cluster, remove_calls,
                  root_generations, admin_user_calls>>

\* setup_root_pki: the first use of the HA client in an attempt that has unseal keys.
SetupRootPki ==
    /\ pc = "root_pki"
    /\ UseHaClient("root_pki", Continue("terraform"))
    /\ UNCHANGED <<envVars, faults_used, clusterVars, storageVars, LocalsOfAttempt, ClusterCalls,
                   topoVars>>
    /\ UNCHANGED libVars

\* terraform_apply: Terraform logs in with the admin user's password on its own; the
\* state it produces is saved with vault_config.tf_state(content).
TerraformApply ==
    /\ pc = "terraform"
    /\ tf_state' = TRUE
    /\ Continue("token_revoke")
    /\ UNCHANGED <<envVars, faults_used, clusterVars, stored_unseal_keys, raft_snapshot_saved,
                   localVars, callVars, topoVars>>
    /\ UNCHANGED libVars

\* Faulty variant of VaultTokenRevoke: the caller's own token is not revoked.
VaultTokenRevokeWithoutLogout ==
    /\ pc = "token_revoke"
    /\ valid_root_tokens' = IF vault_sudo_token = "new_root" THEN 1 ELSE 0
    /\ ha_token' = IF ha_token = "valid" /\ vault_sudo_token = "new_root"
                   THEN "revoked" ELSE ha_token
    /\ Continue("vault_secrets")
    /\ UNCHANGED <<envVars, faults_used, initialized, sealed, raft_servers, leader, pending_join,
                   admin_user_exists, secret_threshold, storageVars, LocalsOfAttempt, callVars,
                   topoVars>>
    /\ UNCHANGED libVars

\* vault_token_revoke, with the ready node's client when unseal keys are stored and
\* with the HA client otherwise: every other accessor, the HA client's session among
\* them, then the caller's own token.
VaultTokenRevoke ==
    /\ pc = "token_revoke"
    /\ valid_root_tokens' = 0
    /\ ha_token' = "revoked"
    /\ Continue("vault_secrets")
    /\ UNCHANGED <<envVars, faults_used, initialized, sealed, raft_servers, leader, pending_join,
                   admin_user_exists, secret_threshold, storageVars, LocalsOfAttempt, callVars,
                   topoVars>>
    /\ UNCHANGED libVars

UpdateVaultSecrets ==
    /\ pc = "vault_secrets"
    /\ UseHaClient("vault_secrets", Continue("raft_snapshot"))
    /\ UNCHANGED <<envVars, faults_used, clusterVars, storageVars, LocalsOfAttempt, ClusterCalls,
                   topoVars>>
    /\ UNCHANGED libVars

\* take_raft_snapshot, then vault_setup returns the HA client and main() breaks.
TakeRaftSnapshot ==
    /\ pc = "raft_snapshot"
    /\ raft_snapshot_saved' = TRUE
    /\ UseHaClient("raft_snapshot",
                   /\ pc' = "done"
                   /\ outcome' = "returned"
                   /\ UNCHANGED <<max_vaultops_retries, attempts, wait_seconds, exc_kind,
                                  exc_reason>>)
    /\ UNCHANGED <<envVars, faults_used, clusterVars, stored_unseal_keys, tf_state,
                   LocalsOfAttempt, ClusterCalls, topoVars>>
    /\ UNCHANGED libVars

\* The statements of vault_setup, where a call to a node or to storage can fail.
VaultSetupSteps ==
    {"create_clients", "initialize_vault", "unseal_vault", "find_ready", "root_token",
     "update_clients", "remove_raft_nodes", "add_raft_nodes", "validate_raft_nodes",
     "admin_user", "root_pki", "terraform", "token_revoke", "vault_secrets", "raft_snapshot"}

\* A failure the environment causes during an attempt: an HTTP client or storage error
\* (any exception class main() does not name), or the operator pressing Ctrl-C.
EnvironmentFault ==
    /\ pc \in VaultSetupSteps
    /\ faults_used < faults_allowed
    /\ faults_used' = faults_used + 1
    /\ \E kind \in {"generic", "interrupt"} : Raise(kind, "environment")
    /\ UNCHANGED <<envVars, clusterVars, storageVars, localVars, callVars, topoVars>>
    /\ UNCHANGED libVars

\* The cluster lost quorum: read_root_generation_progress fails with the text
\* regenerate_root_token turns into VaultOpsRetryError.
LostQuorumFault ==
    /\ pc = "root_token"
    /\ HasUnsealKeys(stored_unseal_keys)
    /\ faults_used < faults_allowed
    /\ faults_used' = faults_used + 1
    /\ Raise("retry", "lost_quorum")
    /\ UNCHANGED <<envVars, clusterVars, storageVars, localVars, callVars, topoVars>>
    /\ UNCHANGED libVars

\* ===================================================== initial states, Next
\* No topology is being resolved while main() runs.
IdleTopology ==
    /\ vault_servers = <<>>
    /\ server_raft_nodes = [status |-> "unset"]
    /\ retry_join_nodes = [status |-> "unset"]

\* No library call is being examined.
\* No root generation was ever started on the node.
NoRootGeneration == [started |-> FALSE, nonce |-> 0, progress |-> 0, nonces_issued |-> 0]

IdleLibrary ==
    /\ root_generation = NoRootGeneration
    /\ s3_bucket = <<>>
    /\ s3_written = <<>>
    /\ lib_call = [fn |-> "none"]
    /\ lib_result = [status |-> "unset"]

DefaultOperator == [answer |-> "yes", shares |-> 1, threshold |-> 1]
Operators == [answer : OperatorAnswers, shares : 0..MaxShares, threshold : 0..MaxShares]
ExactRaftServers == {[node_id |-> n, address |-> ExpectedClusterAddress(n)] : n \in Nodes}
LastNode == TopologyOrder[NumNodes]

\* The Raft membership a run may find on a cluster that was set up before,
\* with the nodes that are initialized under it.
Memberships ==
    {[kind |-> "exact", servers |-> ExactRaftServers, initialized |-> Nodes],
     [kind |-> "stale",
      servers |-> ExactRaftServers \cup
                  {[node_id |-> StaleNodeId, address |-> ExpectedClusterAddress(StaleNodeId)]},
      initialized |-> Nodes],
     [kind |-> "missing",
      servers |-> {s \in ExactRaftServers : s.node_id # LastNode},
      initialized |-> Nodes \ {LastNode}],
     [kind |-> "mismatch",
      servers |-> {s \in ExactRaftServers : s.node_id # LastNode} \cup
                  {[node_id |-> LastNode, address |-> WrongClusterAddress]},
      initialized |-> Nodes]}

MainInit ==
    /\ pc = "main"
    /\ max_vaultops_retries = DefaultMaxVaultopsRetries
    /\ outcome = "running"
    /\ attempts = 0
    /\ wait_seconds = 0
    /\ exc_kind = "none"
    /\ exc_reason = "none"
    /\ faults_used = 0
    /\ faults_allowed \in 0..MaxFaults
    /\ root_ca_days_left \in RootCaDaysChoices
    /\ ready_node = NoNode
    /\ vault_sudo_token = "none"
    /\ node_token = [n \in Nodes |-> "none"]
    /\ is_authenticated = [n \in Nodes |-> "not_called"]
    /\ ha_token = "none"
    /\ ha_requests = {}
    /\ admin_user_calls = 0
    /\ init_calls = <<>>
    /\ unseal_calls = {}
    /\ join_calls = {}
    /\ join_raft_cluster = {}
    /\ remove_calls = {}
    /\ root_generations = 0
    /\ raft_snapshot_saved = FALSE
    /\ valid_root_tokens = 0
    /\ pending_join = {}

\* No node was ever initialized: nothing stored (fresh), or unseal keys or Terraform
\* state left over in storage (inconsistent).
FreshInit ==
    /\ initialized = [n \in Nodes |-> FALSE]
    /\ sealed = [n \in Nodes |-> TRUE]
    /\ raft_servers = {}
    /\ leader = NoNode
    /\ admin_user_exists = FALSE
    /\ secret_threshold = 0
    /\ \/ /\ scenario = "fresh"
          /\ operator \in Operators
          /\ stored_unseal_keys = 0
          /\ tf_state = FALSE
       \/ /\ scenario = "inconsistent"
          /\ operator = DefaultOperator
          /\ stored_unseal_keys \in 0..MaxShares
          /\ tf_state \in BOOLEAN
          /\ stored_unseal_keys > 0 \/ tf_state

\* A cluster an earlier run set up: any of its nodes may be sealed (restarted), the
\* stored unseal keys may be gone, the membership may differ from the topology.
BootstrappedInit ==
    /\ operator = DefaultOperator
    /\ \E m \in Memberships, closed \in SUBSET Nodes :
          LET up == {n \in RaftServerNodeIds(m.servers) \cap m.initialized : n \notin closed}
          IN /\ scenario = (IF m.kind = "exact" /\ closed = {} THEN "bootstrapped" ELSE "degraded")
             /\ initialized = [n \in Nodes |-> n \in m.initialized]
             /\ sealed = [n \in Nodes |-> n \in closed \/ n \notin m.initialized]
             /\ raft_servers = m.servers
             /\ IF HasQuorum(m.servers, up) THEN leader \in up ELSE leader = NoNode
    /\ admin_user_exists = TRUE
    /\ secret_threshold \in 1..MaxShares
    /\ stored_unseal_keys \in 0..MaxShares
    /\ tf_state = TRUE

Init ==
    /\ MainInit
    /\ FreshInit \/ BootstrappedInit
    /\ IdleTopology
    /\ IdleLibrary

Next ==
    \/ MainLoop
    \/ RetrySleep
    \/ CreateClients
    \/ InitializeVault
    \/ UnsealVault
    \/ FindReady
    \/ RootToken
    \/ UpdateClientWithRootToken
    \/ RemoveRaftNodes
    \/ AddRaftNodes
    \/ ValidateRaftNodes
    \/ AddAdminUserPolicy
    \/ SetupRootPki
    \/ TerraformApply
    \/ VaultTokenRevoke
    \/ UpdateVaultSecrets
    \/ TakeRaftSnapshot
    \/ EnvironmentFault
    \/ LostQuorumFault

Spec == Init /\ [][Next]_vars

\* main() is one sequential process: while it has a next statement, it runs it.
FairSpec == Init /\ [][Next]_vars /\ WF_vars(Next)

\* ====================================================== topology resolution
\* A topology is the ordered mapping vault_servers: server name to server, each with
\* its ordered mapping vault_nodes.  Optional strings that are None or empty are "".
Truthy(value) == value # ""

\* The strings ipaddress.ip_address accepts, among those the topologies use.
ValidIps == {"10.0.0.1", "10.0.0.2"}
IsValidIp(ip) == ip \in ValidIps

\* node-level value if set, else the server-level value
Resolve(node_value, server_value) == IF Truthy(node_value) THEN node_value ELSE server_value

NodeId(server_name, node_name) == server_name \o "-" \o node_name

\* Faulty variant of PortInUse: a node may use one port for both listeners.
PortInUseIgnoringSelf(node, validation_node_port) ==
    \/ node.node_port \in validation_node_port
    \/ node.cluster_port \in validation_node_port

\* The port condition of build_raft_server_nodes_map.
PortInUse(node, validation_node_port) ==
    \/ node.node_port \in validation_node_port
    \/ node.cluster_port \in validation_node_port
    \/ node.node_port = node.cluster_port

\* The ValueError build_raft_server_nodes_map raises for one node, "none" if it accepts it.
RaftNodeError(server, node, validation_node_port, validation_node_id) ==
    LET api_addr_fqdn == Resolve(node.api_addr_fqdn, server.api_addr_fqdn)
        api_ip == Resolve(node.api_ip, server.api_ip)
        cluster_addr_fqdn == Resolve(node.cluster_addr_fqdn, server.cluster_addr_fqdn)
        cluster_ip == Resolve(node.cluster_ip, server.cluster_ip)
    IN IF Truthy(api_ip) /\ ~IsValidIp(api_ip) THEN "invalid_ip"
       ELSE IF Truthy(cluster_ip) /\ ~IsValidIp(cluster_ip) THEN "invalid_ip"
       ELSE IF ~Truthy(api_addr_fqdn) /\ ~Truthy(api_ip) THEN "api_addr_required"
       ELSE IF ~Truthy(cluster_addr_fqdn) /\ ~Truthy(cluster_ip) THEN "cluster_addr_required"
       ELSE IF PortInUse(node, validation_node_port) THEN "port_in_use"
       ELSE IF NodeId(server.server_name, node.node_name) \in validation_node_id
            THEN "node_id_in_use"
       ELSE "none"

\* The VaultRaftNode stored in the map for an accepted node.
RaftNode(server, node) ==
    [server_name |-> server.server_name,
     node_name |-> node.node_name,
     node_id |-> NodeId(server.server_name, node.node_name),
     node_port |-> node.node_port,
     cluster_port |-> node.cluster_port,
     explicit_retry_join_nodes |-> node.explicit_retry_join_nodes]

\* The inner loop over the nodes of one server, from node i on.
RECURSIVE BuildServerNodes(_, _, _, _, _)
BuildServerNodes(server, i, validation_node_port, validation_node_id, acc) ==
    IF i > Len(server.vault_nodes)
    THEN [error |-> "none", ids |-> validation_node_id, nodes |-> acc]
    ELSE LET node == server.vault_nodes[i]
             err == RaftNodeError(server, node, validation_node_port, validation_node_id)
         IN IF err # "none"
            THEN [error |-> err, ids |-> validation_node_id, nodes |-> acc]
            ELSE BuildServerNodes(server, i + 1,
                                  validation_node_port \cup {node.node_port, node.cluster_port},
                                  validation_node_id \cup
                                      {NodeId(server.server_name, node.node_name)},
                                  acc \cup {RaftNode(server, node)})

\* The outer loop over the servers, from server s on: the set of seen ports starts
\* empty for every server, the set of seen node IDs is shared by all servers.
RECURSIVE BuildServers(_, _, _, _)
BuildServers(servers, s, validation_node_id, acc) ==
    IF s > Len(servers)
    THEN [status |-> "ok", error |-> "none", nodes |-> acc]
    ELSE LET r == BuildServerNodes(servers[s], 1, {}, validation_node_id, acc)
         IN IF r.error # "none"
            THEN [status |-> "error", error |-> r.error, nodes |-> {}]
            ELSE BuildServers(servers, s + 1, r.ids, r.nodes)

BuildRaftServerNodesMapResult(servers) == BuildServers(servers, 1, {}, {})

\* ---------------------------------------------------- retry-join projection
\* Faulty variant of RetryJoinNodes: the node itself stays among the candidates.
RetryJoinNodesKeepingSelf(raft_node, raft_nodes_list) ==
    LET explicit == raft_node.explicit_retry_join_nodes
    IN IF ~explicit.is_none /\ explicit.ids # {}
       THEN IF \E id \in explicit.ids : id \notin raft_nodes_list
            THEN [error |-> "retry_join_node_not_found", ids |-> {}]
            ELSE [error |-> "none", ids |-> raft_nodes_list \cap explicit.ids]
       ELSE IF explicit.is_none THEN [error |-> "none", ids |-> {}]
       ELSE [error |-> "none", ids |-> raft_nodes_list]

\* The retry_join_nodes the inventory plugin resolves for one node, or its ValueError.
\* explicit_retry_join_nodes is None (is_none) or a mapping with the keys ids.
RetryJoinNodes(raft_node, raft_nodes_list) ==
    LET others == raft_nodes_list \ {raft_node.node_id}
        explicit == raft_node.explicit_retry_join_nodes
    IN IF ~explicit.is_none /\ explicit.ids # {}
       THEN IF \E id \in explicit.ids : id \notin others
            THEN [error |-> "retry_join_node_not_found", ids |-> {}]
            ELSE [error |-> "none", ids |-> others \cap explicit.ids]
       ELSE IF explicit.is_none THEN [error |-> "none", ids |-> {}]
       ELSE [error |-> "none", ids |-> others]

\* All nodes of the map: raft_nodes_list of the inventory plugin.
RaftNodesList(raft_nodes) == {n.node_id : n \in raft_nodes}

InventoryParseResult(raft_nodes) ==
    LET raft_nodes_list == RaftNodesList(raft_nodes)
    IN IF \E n \in raft_nodes : RetryJoinNodes(n, raft_nodes_list).error # "none"
       THEN [status |-> "error", map |-> <<>>]
       ELSE [status |-> "ok",
             map |-> [id \in raft_nodes_list |->
                        RetryJoinNodes(CHOOSE n \in raft_nodes : n.node_id = id,
                                       raft_nodes_list).ids]]

\* build_raft_server_nodes_map(vault_config)
BuildRaftServerNodesMap ==
    /\ pc = "topology"
    /\ LET r == BuildRaftServerNodesMapResult(vault_servers)
       IN /\ server_raft_nodes' = r
          /\ IF r.status = "ok"
             THEN pc' = "retry_join" /\ UNCHANGED <<outcome, exc_kind, exc_reason>>
             ELSE /\ pc' = "done"
                  /\ outcome' = "raised"
                  /\ exc_kind' = "generic"
                  /\ exc_reason' = r.error
    /\ UNCHANGED <<max_vaultops_retries, attempts, wait_seconds, envVars, faults_used,
                   clusterVars, storageVars, localVars, callVars, vault_servers,
                   retry_join_nodes>>
    /\ UNCHANGED libVars

\* InventoryModule.parse: the retry_join_nodes of every node of the map
InventoryParse ==
    /\ pc = "retry_join"
    /\ LET r == InventoryParseResult(server_raft_nodes.nodes)
       IN /\ retry_join_nodes' = r
          /\ pc' = "done"
          /\ IF r.status = "ok"
             THEN outcome' = "returned" /\ UNCHANGED <<exc_kind, exc_reason>>
             ELSE /\ outcome' = "raised"
                  /\ exc_kind' = "generic"
                  /\ exc_reason' = "retry_join_node_not_found"
    /\ UNCHANGED <<max_vaultops_retries, attempts, wait_seconds, envVars, faults_used,
                   clusterVars, storageVars, localVars, callVars, vault_servers,
                   server_raft_nodes>>
    /\ UNCHANGED libVars

\* ---------------------------------------------------- topologies to resolve
Ports == 1..MaxPort
DefaultExplicitRetryJoinNodes == [is_none |-> FALSE, ids |-> {}]

VaultNode(name, node_port, cluster_port, explicit) ==
    [node_name |-> name, node_port |-> node_port, cluster_port |-> cluster_port,
     api_addr_fqdn |-> "", api_ip |-> "", cluster_addr_fqdn |-> "", cluster_ip |-> "",
     explicit_retry_join_nodes |-> explicit]

VaultServer(name, ip, nodes) ==
    [server_name |-> name, api_addr_fqdn |-> "", api_ip |-> ip,
     cluster_addr_fqdn |-> "", cluster_ip |-> ip, vault_nodes |-> nodes]

\* Two nodes on server a and one on server b, with every choice of ports.
PortTopologies ==
    {<<VaultServer("a", "10.0.0.1",
                   <<VaultNode("n1", p[1], p[2], DefaultExplicitRetryJoinNodes),
                     VaultNode("n2", p[3], p[4], DefaultExplicitRetryJoinNodes)>>),
       VaultServer("b", "10.0.0.2",
                   <<VaultNode("n1", p[5], p[6], DefaultExplicitRetryJoinNodes)>>)>> :
        p \in [1..6 -> Ports]}

\* Two servers with one node each, named so that node IDs may coincide.
NameTopologies ==
    {<<VaultServer(n[1], "10.0.0.1", <<VaultNode(n[2], 1, 2, DefaultExplicitRetryJoinNodes)>>),
       VaultServer(n[3], "10.0.0.2", <<VaultNode(n[4], 3, 4, DefaultExplicitRetryJoinNodes)>>)>> :
        n \in {q \in [1..4 -> {"a", "a-b", "c", "b-c"}] :
                 /\ q[1] \in {"a", "a-b"} /\ q[3] \in {"a", "a-b"} /\ q[1] # q[3]
                 /\ q[2] \in {"c", "b-c"} /\ q[4] \in {"c", "b-c"}}}

\* The explicit_retry_join_nodes a node may declare: None, or a mapping whose keys
\* are node IDs of the topology or an ID no node has.
ExplicitChoices ==
    {[is_none |-> TRUE, ids |-> {}]} \cup
    {[is_none |-> FALSE, ids |-> x] : x \in SUBSET {"a-n1", "a-n2", "b-n1", "ghost"}}

ExplicitTopologies ==
    {<<VaultServer("a", "10.0.0.1",
                   <<VaultNode("n1", 1, 2, e1), VaultNode("n2", 3, 4, e2)>>),
       VaultServer("b", "10.0.0.2",
                   <<VaultNode("n1", 5, 6, DefaultExplicitRetryJoinNodes)>>)>> :
        e1 \in ExplicitChoices, e2 \in ExplicitChoices}

IpChoices == {"", "10.0.0.1", "not-an-ip"}
FqdnChoices == {"", "vault.example"}
Addresses == [api_addr_fqdn : FqdnChoices, api_ip : IpChoices,
              cluster_addr_fqdn : FqdnChoices, cluster_ip : IpChoices]

\* One server with one node, with every choice of server-level and node-level address.
AddressTopologies ==
    {<<[server_name |-> "a", api_addr_fqdn |-> sa.api_addr_fqdn, api_ip |-> sa.api_ip,
        cluster_addr_fqdn |-> sa.cluster_addr_fqdn, cluster_ip |-> sa.cluster_ip,
        vault_nodes |-> <<[node_name |-> "n1", node_port |-> 1, cluster_port |-> 2,
                           api_addr_fqdn |-> na.api_addr_fqdn, api_ip |-> na.api_ip,
                           cluster_addr_fqdn |-> na.cluster_addr_fqdn,
                           cluster_ip |-> na.cluster_ip,
                           explicit_retry_join_nodes |-> DefaultExplicitRetryJoinNodes]>>]>> :
        sa \in Addresses, na \in Addresses}

\* No orchestration run is in progress while a topology is resolved.
IdleOrchestration ==
    /\ max_vaultops_retries = DefaultMaxVaultopsRetries
    /\ outcome = "running"
    /\ attempts = 0
    /\ wait_seconds = 0
    /\ exc_kind = "none"
    /\ exc_reason = "none"
    /\ scenario = "topology"
    /\ operator = DefaultOperator
    /\ root_ca_days_left = 365
    /\ faults_allowed = 0
    /\ faults_used = 0
    /\ initialized = [n \in Nodes |-> FALSE]
    /\ sealed = [n \in Nodes |-> TRUE]
    /\ raft_servers = {}
    /\ leader = NoNode
    /\ pending_join = {}
    /\ admin_user_exists = FALSE
    /\ valid_root_tokens = 0
    /\ secret_threshold = 0
    /\ stored_unseal_keys = 0
    /\ tf_state = FALSE
    /\ raft_snapshot_saved = FALSE
    /\ ready_node = NoNode
    /\ vault_sudo_token = "none"
    /\ node_token = [n \in Nodes |-> "none"]
    /\ is_authenticated = [n \in Nodes |-> "not_called"]
    /\ ha_token = "none"
    /\ ha_requests = {}
    /\ admin_user_calls = 0
    /\ init_calls = <<>>
    /\ unseal_calls = {}
    /\ join_calls = {}
    /\ join_raft_cluster = {}
    /\ remove_calls = {}
    /\ root_generations = 0

TopoInit ==
    /\ pc = "topology"
    /\ IdleOrchestration
    /\ vault_servers \in PortTopologies \cup NameTopologies \cup ExplicitTopologies
                         \cup AddressTopologies
    /\ server_raft_nodes = [status |-> "unset"]
    /\ retry_join_nodes = [status |-> "unset"]
    /\ IdleLibrary

TopoNext ==
    \/ BuildRaftServerNodesMap
    \/ InventoryParse

SpecTopo == TopoInit /\ [][TopoNext]_vars

\* ======================================================== certificate component
\* A certificate is the mapping of its compared properties to their printed values
\* ("none" for an absent extension and for its criticality), its validity in days
\* relative to now, and its serial number.
ExtensionNames ==
    <<"authority_key_identifier", "subject_key_identifier", "key_usage",
      "extended_key_usage", "basic_constraints", "subject_alternative_name">>
Critical(name) == name \o "_critical"
BoolText(b) == IF b THEN "true" ELSE "false"

\* Faulty variant of ComparedProperties: the criticality of the SAN is not compared.
ComparedPropertiesWithoutSanCritical ==
    <<"subject", "issuer", "public_key",
      "authority_key_identifier", "authority_key_identifier_critical",
      "subject_key_identifier", "subject_key_identifier_critical",
      "key_usage", "key_usage_critical",
      "extended_key_usage", "extended_key_usage_critical",
      "basic_constraints", "basic_constraints_critical",
      "subject_alternative_name">>

\* The properties generate_x590_certificate compares, in the order it compares them.
ComparedProperties ==
    <<"subject", "issuer", "public_key",
      "authority_key_identifier", "authority_key_identifier_critical",
      "subject_key_identifier", "subject_key_identifier_critical",
      "key_usage", "key_usage_critical",
      "extended_key_usage", "extended_key_usage_critical",
      "basic_constraints", "basic_constraints_critical",
      "subject_alternative_name", "subject_alternative_name_critical">>

PropertyNames ==
    {"subject", "issuer", "public_key"} \cup
    UNION {{ExtensionNames[i], Critical(ExtensionNames[i])} : i \in 1..Len(ExtensionNames)}

\* The expectation generate_x590_certificate builds from the requested properties.
\* The authority key identifier is expected only when a CA signs the certificate.
ExpectedProperties(p, has_ca) ==
    LET requested == [n \in {ExtensionNames[i] : i \in 1..Len(ExtensionNames)} |->
                         CASE n = "authority_key_identifier" ->
                                  p.authority_key_identifier /\ has_ca
                           [] n = "subject_key_identifier" -> p.subject_key_identifier
                           [] n = "key_usage" -> p.key_usage
                           [] n = "extended_key_usage" -> p.extended_key_usage
                           [] n = "basic_constraints" -> p.basic_constraints
                           [] OTHER -> p.subject_alternative_name]
        critical == [n \in {ExtensionNames[i] : i \in 1..Len(ExtensionNames)} |->
                         CASE n = "authority_key_identifier" ->
                                  p.authority_key_identifier_critical
                           [] n = "subject_key_identifier" -> p.subject_key_identifier_critical
                           [] n = "key_usage" -> p.key_usage_critical
                           [] n = "extended_key_usage" -> p.extended_key_usage_critical
                           [] n = "basic_constraints" -> p.basic_constraints_critical
                           [] OTHER -> p.subject_alternative_name_critical]
    IN [f \in PropertyNames |->
          IF f = "subject" THEN (IF p.name THEN "CN=requested" ELSE "CN=ca")
          ELSE IF f = "issuer"
               THEN (IF has_ca THEN "CN=ca" ELSE IF p.name THEN "CN=requested" ELSE "CN=ca")
          ELSE IF f = "public_key" THEN (IF p.set_public_key THEN "key" ELSE "none")
          ELSE IF \E i \in 1..Len(ExtensionNames) : f = ExtensionNames[i]
               THEN (IF requested[f] THEN "requested " \o f ELSE "none")
          ELSE LET n == CHOOSE n \in DOMAIN requested : f = Critical(n)
               IN IF requested[n] THEN BoolText(critical[n]) ELSE "none"]

\* A datetime: days from now, and whether it carries a time zone.
Naive(days) == [days |-> days, aware |-> FALSE]
Aware(days) == [days |-> days, aware |-> TRUE]
\* a < b on datetimes: Python raises TypeError when only one of them is aware.
DatetimeLess(a, b) ==
    IF a.aware # b.aware THEN "type_error" ELSE BoolText(a.days < b.days)

\* _load_existing_certificate: the reason no certificate was loaded, "none" if one was.
LoadExistingCertificate(existing) ==
    CASE existing.kind = "empty" -> "certificate_content is empty"
      [] existing.kind = "invalid" -> "certificate_content is invalid"
      [] OTHER -> "none"

\* The first compared property in which the loaded certificate differs, "none" if none.
FirstMismatch(current, expected) ==
    LET differs == {i \in 1..Len(ComparedProperties) :
                       current[ComparedProperties[i]] # expected[ComparedProperties[i]]}
    IN IF differs = {} THEN "none"
       ELSE ComparedProperties[CHOOSE i \in differs : \A j \in differs : i <= j]

\* The validity checks on a certificate that matched: Certificate.not_valid_after and
\* not_valid_before are naive datetimes, now is datetime.now(timezone.utc).
ValidityCheck(certificate, has_ca, ca_days_left) ==
    LET now == Aware(0)
        expired == DatetimeLess(Naive(certificate.not_valid_after), now)
        not_yet == DatetimeLess(now, Naive(certificate.not_valid_before))
        beyond == DatetimeLess(Naive(ca_days_left), Naive(certificate.not_valid_after))
    IN IF expired = "type_error" THEN "type_error"
       ELSE IF expired = "true" THEN "Existing certificate is expired"
       ELSE IF not_yet = "type_error" THEN "type_error"
       ELSE IF not_yet = "true" THEN "Existing certificate is not valid yet"
       ELSE IF has_ca /\ beyond = "true"
            THEN "Existing certificate's validity is more than Issuer Validity"
       ELSE "none"

\* builder.sign: a certificate with the expected properties and a random serial number.
SignedCertificate(p, has_ca) ==
    [properties |-> ExpectedProperties(p, has_ca), not_valid_before |-> 0,
     not_valid_after |-> p.not_valid_after, serial |-> "random_serial_number"]

\* generate_x590_certificate: what it returns or raises.
GenerateX590Certificate(p, has_ca, ca_days_left, existing) ==
    LET load_reason == LoadExistingCertificate(existing)
        config_error == GenerateX590CertificateError(p, has_ca, ca_days_left)
        raised(kind, reason) == [status |-> "raised", kind |-> kind, reason |-> reason,
                                 need_to_generate |-> FALSE, certificate |-> existing.certificate]
        returned(need, reason, certificate) ==
            [status |-> "ok", kind |-> "none", reason |-> reason,
             need_to_generate |-> need, certificate |-> certificate]
        mismatch == FirstMismatch(existing.certificate.properties, ExpectedProperties(p, has_ca))
        validity == ValidityCheck(existing.certificate, has_ca, ca_days_left)
    IN IF config_error # "none" THEN raised(CertificateErrorKind, config_error)
       ELSE IF load_reason # "none" THEN returned(TRUE, load_reason, SignedCertificate(p, has_ca))
       ELSE IF mismatch # "none" THEN returned(TRUE, mismatch, SignedCertificate(p, has_ca))
       ELSE IF validity = "type_error" THEN raised("generic", "TypeError")
       ELSE IF validity # "none" THEN returned(TRUE, validity, SignedCertificate(p, has_ca))
       ELSE returned(FALSE, "none", existing.certificate)

\* ---- inputs of the certificate component
NoCertificate ==
    [properties |-> [f \in PropertyNames |-> "none"], not_valid_before |-> 0,
     not_valid_after |-> 0, serial |-> "none"]

\* Requested property sets: the client certificate, one with both key identifiers,
\* one without extensions, and one the component rejects.
CertificatePropertyChoices ==
    {ClientCertificateProperties,
     [ClientCertificateProperties EXCEPT !.subject_key_identifier = TRUE,
                                         !.authority_key_identifier = TRUE,
                                         !.authority_key_identifier_critical = TRUE],
     [ClientCertificateProperties EXCEPT !.key_usage = FALSE, !.key_usage_critical = FALSE,
                                         !.extended_key_usage = FALSE,
                                         !.extended_key_usage_critical = FALSE,
                                         !.basic_constraints = FALSE,
                                         !.subject_alternative_name = FALSE],
     [ClientCertificateProperties EXCEPT !.name = FALSE],
     [ClientCertificateProperties EXCEPT !.not_valid_after = 0]}

\* Validity periods of an existing certificate, in days from now: current, expired,
\* not yet valid, and current but longer than the shorter-lived CA.
ValidityChoices == {<<0 - 10, 80>>, <<0 - 100, 0 - 1>>, <<10, 100>>, <<0 - 10, 200>>}

IsExtension(f) == \E i \in 1..Len(ExtensionNames) : f = ExtensionNames[i]
IsCritical(f) == \E i \in 1..Len(ExtensionNames) : f = Critical(ExtensionNames[i])

\* The certificates that differ from props in the single property f: another value,
\* an extension added or removed, or a criticality flipped.
Altered(props, f) ==
    IF IsCritical(f)
    THEN IF props[f] = "none" THEN {}
         ELSE {[props EXCEPT ![f] = BoolText(props[f] = "false")]}
    ELSE IF IsExtension(f)
    THEN IF props[f] = "none"
         THEN {[props EXCEPT ![f] = "other " \o f, ![Critical(f)] = "false"]}
         ELSE {[props EXCEPT ![f] = "other " \o f],
               [props EXCEPT ![f] = "none", ![Critical(f)] = "none"]}
    ELSE {[props EXCEPT ![f] = "other " \o f]}

ExistingCertificate(props, validity) ==
    [kind |-> "certificate",
     certificate |-> [properties |-> props, not_valid_before |-> validity[1],
                      not_valid_after |-> validity[2], serial |-> "existing_serial_number"]]

ExistingChoices(p, has_ca) ==
    LET expected == ExpectedProperties(p, has_ca)
    IN {[kind |-> "empty", certificate |-> NoCertificate],
        [kind |-> "invalid", certificate |-> NoCertificate]}
       \cup {ExistingCertificate(expected, v) : v \in ValidityChoices}
       \cup {ExistingCertificate(props, <<0 - 10, 80>>) :
                 props \in UNION {Altered(expected, f) : f \in PropertyNames}}

\* ---- the component called repeatedly with the same arguments
GenerateCertificate ==
    /\ pc = "certificate"
    /\ lib_call.fn = "generate_x590_certificate"
    /\ Len(lib_result.results) < MaxCalls
    /\ lib_result' = [lib_result EXCEPT !.results =
           Append(@, GenerateX590Certificate(lib_call.properties, lib_call.has_ca,
                                             lib_call.ca_days_left, lib_call.existing))]
    /\ UNCHANGED <<mainVars, envVars, faults_used, clusterVars, storageVars, localVars,
                   callVars, topoVars, s3_bucket, s3_written, lib_call,
                   root_generation>>

CertInit ==
    /\ IdleOrchestration
    /\ IdleTopology
    /\ pc = "certificate"
    /\ s3_bucket = <<>>
    /\ s3_written = <<>>
    /\ root_generation = NoRootGeneration
    /\ \E p \in CertificatePropertyChoices, has_ca \in BOOLEAN, days \in RootCaDaysChoices :
         \E existing \in ExistingChoices(p, has_ca) :
             lib_call = [fn |-> "generate_x590_certificate", properties |-> p,
                         has_ca |-> has_ca, ca_days_left |-> days, existing |-> existing]
    /\ lib_result = [status |-> "unset", results |-> <<>>]

CertNext == GenerateCertificate

SpecCert == CertInit /\ [][CertNext]_vars

\* ========================================================= private key component
\* A passphrase is a string; "" stands for an absent or empty one (both are falsy).
PassphraseChoices == {"", "pw1", "pw2"}
KeySizeChoices == {1024, 2048}
PublicExponentChoices == {3, 65537}

\* Keys a PEM content can hold. Only RSA keys have key_size and a public exponent e.
RsaKeys ==
    [type : {"rsa"}, key_size : KeySizeChoices, e : PublicExponentChoices, id : {"supplied"}]
Ed25519Key == [type |-> "ed25519", key_size |-> 0, e |-> 0, id |-> "supplied"]
NoKey == [type |-> "none", key_size |-> 0, e |-> 0, id |-> "none"]

\* private_key_content: None, text that is no PEM key, or the PEM of a key encrypted
\* with a passphrase ("" when not encrypted).
KeyContents ==
    {[kind |-> "none", key |-> NoKey, encrypted_with |-> ""],
     [kind |-> "invalid", key |-> NoKey, encrypted_with |-> ""]}
    \cup [kind : {"pem"}, key : RsaKeys \cup {Ed25519Key}, encrypted_with : {"", "pw1"}]

\* serialization.load_pem_private_key: a passphrase for an unencrypted key, none for an
\* encrypted one, or a wrong one, is an error.
LoadPemPrivateKey(content, passphrase) ==
    IF content.kind = "pem" /\ content.encrypted_with = passphrase
    THEN [status |-> "ok", key |-> content.key]
    ELSE [status |-> "error", key |-> NoKey]

\* rsa.generate_private_key
FreshKey(key_size, public_exponent) ==
    [type |-> "rsa", key_size |-> key_size, e |-> public_exponent, id |-> "generated"]

\* generate_private_key: what it returns or raises.
GeneratePrivateKeyResult(content, passphrase, key_size, public_exponent) ==
    LET loaded == LoadPemPrivateKey(content, passphrase)
        returned(need, reason, key) ==
            [status |-> "ok", need_to_generate |-> need, reason |-> reason, private_key |-> key]
        fresh == FreshKey(key_size, public_exponent)
    IN IF content.kind = "none" THEN returned(TRUE, "private_key_content is empty", fresh)
       ELSE IF loaded.status = "error"
            THEN returned(TRUE, "private_key_content is invalid", fresh)
       ELSE IF loaded.key.type # "rsa"
            THEN [status |-> "raised", need_to_generate |-> FALSE,
                  reason |-> "AttributeError", private_key |-> NoKey]
       ELSE IF loaded.key.key_size # key_size
            THEN returned(TRUE, "key_size is not valid", fresh)
       ELSE IF loaded.key.e # public_exponent
            THEN returned(TRUE, "public_exponent is not valid", fresh)
       ELSE returned(FALSE, "", loaded.key)

GeneratePrivateKey ==
    /\ pc = "private_key"
    /\ lib_call.fn = "generate_private_key"
    /\ lib_result.status = "unset"
    /\ lib_result' = GeneratePrivateKeyResult(lib_call.private_key_content,
                                              lib_call.private_key_passphrase,
                                              lib_call.key_size, lib_call.public_exponent)
    /\ UNCHANGED <<mainVars, envVars, faults_used, clusterVars, storageVars, localVars,
                   callVars, topoVars, s3_bucket, s3_written, lib_call,
                   root_generation>>

KeyInit ==
    /\ IdleOrchestration
    /\ IdleTopology
    /\ pc = "private_key"
    /\ s3_bucket = <<>>
    /\ s3_written = <<>>
    /\ root_generation = NoRootGeneration
    /\ \E content \in KeyContents, passphrase \in PassphraseChoices,
          key_size \in KeySizeChoices, public_exponent \in PublicExponentChoices :
         lib_call = [fn |-> "generate_private_key", private_key_content |-> content,
                     private_key_passphrase |-> passphrase, key_size |-> key_size,
                     public_exponent |-> public_exponent]
    /\ lib_result = [status |-> "unset"]

KeyNext == GeneratePrivateKey

SpecKey == KeyInit /\ [][KeyNext]_vars

\* ============================================================= root-token math
\* Tokens and OTPs are strings of ASCII characters, held as sequences of their codes.
TokenBytes == {48, 90, 127}
Tokens(n) == [1..n -> TokenBytes]

\* Faulty variant of BitXor: bitwise or.
RECURSIVE BitOr(_, _)
BitOr(a, b) ==
    IF a = 0 /\ b = 0 THEN 0
    ELSE (IF a % 2 = 1 \/ b % 2 = 1 THEN 1 ELSE 0) + 2 * BitOr(a \div 2, b \div 2)

\* i ^ j on bytes.
RECURSIVE BitXor(_, _)
BitXor(a, b) ==
    IF a = 0 /\ b = 0 THEN 0
    ELSE (((a % 2) + (b % 2)) % 2) + 2 * BitXor(a \div 2, b \div 2)

\* zip(root_token, otp_bytes) with i ^ j: as long as the shorter of the two.
XorBytes(root_token, otp_bytes) ==
    LET n == IF Len(root_token) < Len(otp_bytes) THEN Len(root_token) ELSE Len(otp_bytes)
    IN [i \in 1..n |-> BitXor(root_token[i], otp_bytes[i])]

\* A base64 text is a sequence of digits 0..63 and the padding character.
PadChar == 64

\* The unpadded standard base64 text Vault returns for a byte string.
RECURSIVE Base64Encode(_)
Base64Encode(b) ==
    IF Len(b) = 0 THEN <<>>
    ELSE IF Len(b) = 1 THEN <<b[1] \div 4, (b[1] % 4) * 16>>
    ELSE IF Len(b) = 2
         THEN <<b[1] \div 4, (b[1] % 4) * 16 + (b[2] \div 16), (b[2] % 16) * 4>>
    ELSE <<b[1] \div 4, (b[1] % 4) * 16 + (b[2] \div 16),
           (b[2] % 16) * 4 + (b[3] \div 64), b[3] % 64>>
         \o Base64Encode(SubSeq(b, 4, Len(b)))

\* base64.b64decode without validation: digits are taken four at a time; a padding
\* character ends the input once it completes a group and is skipped otherwise; input
\* that ends inside a group is an error.
RECURSIVE B64Decode(_, _, _, _, _, _)
B64Decode(text, i, quad_pos, leftchar, pads, out) ==
    IF i > Len(text)
    THEN IF quad_pos = 0 THEN [status |-> "ok", bytes |-> out]
         ELSE [status |-> "error", bytes |-> <<>>]
    ELSE IF text[i] = PadChar
    THEN IF quad_pos >= 2 /\ quad_pos + pads + 1 >= 4
         THEN [status |-> "ok", bytes |-> out]
         ELSE B64Decode(text, i + 1, quad_pos, leftchar, pads + 1, out)
    ELSE CASE quad_pos = 0 -> B64Decode(text, i + 1, 1, text[i], 0, out)
           [] quad_pos = 1 -> B64Decode(text, i + 1, 2, text[i] % 16, 0,
                                        Append(out, leftchar * 4 + (text[i] \div 16)))
           [] quad_pos = 2 -> B64Decode(text, i + 1, 3, text[i] % 4, 0,
                                        Append(out, leftchar * 16 + (text[i] \div 4)))
           [] OTHER -> B64Decode(text, i + 1, 0, 0, 0, Append(out, leftchar * 64 + text[i]))

\* bytearray(text, "ascii") and bytes.decode("utf-8") on codes below 128.
IsAscii(codes) == \A i \in 1..Len(codes) : codes[i] < 128

\* _calculate_new_root
CalculateNewRootResult(encoded_root_token, otp) ==
    LET root_token == B64Decode(encoded_root_token \o <<PadChar, PadChar>>, 1, 0, 0, 0, <<>>)
        final_root_token_bytes == XorBytes(root_token.bytes, otp)
    IN IF root_token.status # "ok" \/ ~IsAscii(otp) \/ ~IsAscii(final_root_token_bytes)
       THEN [status |-> "raised", decoded |-> <<>>, token |-> <<>>]
       ELSE [status |-> "ok", decoded |-> root_token.bytes, token |-> final_root_token_bytes]

CalculateNewRoot ==
    /\ pc = "root_token_math"
    /\ lib_call.fn = "_calculate_new_root"
    /\ lib_result.status = "unset"
    /\ lib_result' = CalculateNewRootResult(lib_call.encoded_root_token, lib_call.otp)
    /\ UNCHANGED <<mainVars, envVars, faults_used, clusterVars, storageVars, localVars,
                   callVars, topoVars, s3_bucket, s3_written, lib_call,
                   root_generation>>

\* Vault hands out the base64 text of the new root token xor-ed with the OTP.
RootMathInit ==
    /\ IdleOrchestration
    /\ IdleTopology
    /\ pc = "root_token_math"
    /\ s3_bucket = <<>>
    /\ s3_written = <<>>
    /\ root_generation = NoRootGeneration
    /\ \E n \in 0..MaxTokenLen :
         \E token \in Tokens(n), otp \in Tokens(n) :
            lib_call = [fn |-> "_calculate_new_root", token |-> token, otp |-> otp,
                        encoded_root_token |-> Base64Encode(XorBytes(token, otp))]
    /\ lib_result = [status |-> "unset"]

RootMathNext == CalculateNewRoot

SpecRootMath == RootMathInit /\ [][RootMathNext]_vars

\* ===================================================== root generation protocol
\* Faulty variant of InProgressDecision: a generation in progress is not looked at.
InProgressDecisionIgnored(started, cancel_root_generation) == "start"

\* What regenerate_root_token does about a generation that is already in progress.
InProgressDecision(started, cancel_root_generation) ==
    IF ~started THEN "start" ELSE IF cancel_root_generation THEN "cancel" ELSE "raise"

\* Faulty variant of StopSubmitting: the loop never breaks.
StopSubmittingNever(progress, required) == FALSE

\* if generate_root_response["progress"] == generate_root_response["required"]: break
StopSubmitting(progress, required) == progress = required

\* One request to the node: after fail_after requests the connection fails and the
\* rest of the function is not executed.
VaultRequest(st, fail_after, call, generation) ==
    IF st.failed THEN st
    ELSE IF Len(st.calls) = fail_after THEN [st EXCEPT !.failed = TRUE]
    ELSE [st EXCEPT !.calls = Append(@, call), !.generation = generation]

\* for unseal_key in unseal_keys: generate_root(key, nonce). The node counts a key
\* while its generation is in progress and completes it at the threshold.
RECURSIVE SubmitKeys(_, _, _, _, _, _)
SubmitKeys(st, unseal_keys, i, nonce, required, fail_after) ==
    IF i > Len(unseal_keys) \/ st.failed THEN st
    ELSE LET g == st.generation
             counted == g.started /\ g.nonce = nonce
             progress == IF counted THEN g.progress + 1 ELSE g.progress
             after == IF counted /\ progress = required
                      THEN [g EXCEPT !.started = FALSE, !.progress = progress]
                      ELSE [g EXCEPT !.progress = progress]
             sent == VaultRequest(st, fail_after,
                                  [op |-> "generate_root", key |-> unseal_keys[i],
                                   nonce |-> nonce, started |-> g.started,
                                   progress |-> g.progress], after)
             answered == [sent EXCEPT !.complete = ~sent.failed /\ counted /\ progress = required]
         IN IF ~answered.failed /\ StopSubmitting(progress, required) THEN answered
            ELSE SubmitKeys(answered, unseal_keys, i + 1, nonce, required, fail_after)

\* regenerate_root_token: what it returns or raises, the requests it sent and the
\* generation state it leaves on the node.
RegenerateRootToken(unseal_keys, generation, required, cancel_root_generation, calculate_new_root, fail_after) ==
    LET otp == <<127, 48, 90>>
        encoded_root_token == Base64Encode(XorBytes(<<48, 90, 127>>, otp))
        st0 == [calls |-> <<>>, generation |-> generation, failed |-> FALSE, complete |-> FALSE]
        raised(st, kind, reason) ==
            [status |-> "raised", kind |-> kind, reason |-> reason, calls |-> st.calls,
             generation |-> st.generation, new_root |-> <<>>]
        read == VaultRequest(st0, fail_after, [op |-> "read_root_generation_progress"],
                             generation)
        decision == InProgressDecision(generation.started, cancel_root_generation)
        cancelled ==
            IF decision = "cancel"
            THEN VaultRequest(read, fail_after, [op |-> "cancel_root_generation"],
                              [generation EXCEPT !.started = FALSE, !.nonce = 0,
                                                 !.progress = 0])
            ELSE read
        nonce == generation.nonces_issued + 1
        started ==
            VaultRequest(cancelled, fail_after,
                         [op |-> "start_root_token_generation", nonce |-> nonce,
                          started |-> cancelled.generation.started],
                         [started |-> TRUE, nonce |-> nonce, progress |-> 0,
                          nonces_issued |-> nonce])
        submitted == SubmitKeys(started, unseal_keys.keys, 1, nonce, required, fail_after)
    IN IF unseal_keys.is_none THEN raised(st0, "retry", "unseal_keys_not_found")
       ELSE IF read.failed THEN raised(read, "generic", "connection_error")
       ELSE IF Len(unseal_keys.keys) < required
            THEN raised(read, "retry", "not_enough_unseal_keys")
       ELSE IF decision = "raise" THEN raised(read, "retry", "already_in_progress")
       ELSE IF submitted.failed THEN raised(submitted, "generic", "connection_error")
       ELSE IF ~submitted.complete THEN raised(submitted, "retry", "could_not_be_generated")
       ELSE [status |-> "ok", kind |-> "none", reason |-> "none", calls |-> submitted.calls,
             generation |-> submitted.generation,
             new_root |-> IF calculate_new_root
                          THEN CalculateNewRootResult(encoded_root_token, otp).token
                          ELSE <<>>]

\* vault_setup calls regenerate_root_token once per attempt, with cancel_root_generation
\* and calculate_new_root set.
RegenerateRootTokenCall ==
    /\ pc = "regenerate_root_token"
    /\ lib_call.fn = "regenerate_root_token"
    /\ lib_result.n < MaxCalls
    /\ \E fail_after \in (0 - 1)..(MaxShares + 2) :
         LET r == RegenerateRootToken(lib_call.unseal_keys, root_generation, lib_call.required,
                                      TRUE, TRUE, fail_after)
         IN /\ lib_result' = [status |-> r.status, kind |-> r.kind, reason |-> r.reason,
                              calls |-> r.calls, new_root |-> r.new_root,
                              before |-> root_generation, n |-> lib_result.n + 1]
            /\ root_generation' = r.generation
    /\ UNCHANGED <<mainVars, envVars, faults_used, clusterVars, storageVars, localVars,
                   callVars, topoVars, s3_bucket, s3_written, lib_call>>

\* The stored keys are the first shares of the node, or are missing; the node may have
\* a generation in progress that an earlier run started.
RootGenInit ==
    /\ IdleOrchestration
    /\ IdleTopology
    /\ pc = "regenerate_root_token"
    /\ s3_bucket = <<>>
    /\ s3_written = <<>>
    /\ \E required \in 1..MaxShares, stored \in 0..MaxShares, is_none \in BOOLEAN :
         /\ is_none => stored = 0
         /\ lib_call = [fn |-> "regenerate_root_token", required |-> required,
                        unseal_keys |-> [is_none |-> is_none, keys |-> [i \in 1..stored |-> i]]]
         /\ \/ root_generation = NoRootGeneration
            \/ \E progress \in 0..(required - 1) :
                 root_generation = [started |-> TRUE, nonce |-> 1, progress |-> progress,
                                    nonces_issued |-> 1]
    /\ lib_result = [status |-> "unset", n |-> 0]

RootGenNext == RegenerateRootTokenCall

SpecRootGen == RootGenInit /\ [][RootGenNext]_vars

\* ======================================================= revoking credentials
\* The accessor of the token the caller is logged in with (lookup_self).
CurrentAccessor == 0

\* The other token accessors auth/token/accessors can list, and the approle mounts
\* list_auth_methods can name.
OtherAccessors == 1..MaxAccessors
ApproleMounts == {"approle/", "approle2/"}

\* Faulty variant of RevokesAccessor: the caller's own accessor is revoked in the loop.
RevokesAccessorAlways(accessor, current_accessor) == TRUE

\* if accessor != current_accessor: revoke_token(accessor, accessor=True)
RevokesAccessor(accessor, current_accessor) == accessor # current_accessor

\* The mount a request with this mount_point reaches: the client folds the doubled
\* slash a key of list_auth_methods leaves in the URL.
RequestMount(mount_point) ==
    CASE mount_point \in {"approle", "approle/"} -> "approle/"
      [] mount_point \in {"approle2", "approle2/"} -> "approle2/"
      [] OTHER -> "none"

\* for key in keys: lookup_token, then revoke_token unless it is the caller's own.
\* A token that expired answers the lookup with InvalidPath and is skipped; any
\* other failure of the lookup becomes ValueError.
RECURSIVE RevokeTokens(_, _, _, _)
RevokeTokens(keys, tokens, i, revoke_token) ==
    IF i > Len(keys) THEN [raised |-> FALSE, revoke_token |-> revoke_token]
    ELSE IF tokens[keys[i]] = "expired" THEN RevokeTokens(keys, tokens, i + 1, revoke_token)
    ELSE IF tokens[keys[i]] = "error" THEN [raised |-> TRUE, revoke_token |-> revoke_token]
    ELSE IF RevokesAccessor(keys[i], CurrentAccessor)
         THEN RevokeTokens(keys, tokens, i + 1, revoke_token \cup {keys[i]})
    ELSE RevokeTokens(keys, tokens, i + 1, revoke_token)

\* vault_token_revoke on a node whose token store holds `tokens` and whose approle
\* mounts hold `mounts`: the requests it sends and what is left afterwards. A destroy
\* request for an accessor the addressed mount does not hold is answered with an
\* error, which nothing catches.
VaultTokenRevokeResult(tokens, mounts) ==
    LET keys == SelectSeq([i \in 1..(MaxAccessors + 1) |-> i - 1],
                         LAMBDA a : tokens[a] # "absent")
        loop == RevokeTokens(keys, tokens, 1, {})
        listed == {m \in ApproleMounts : mounts[m] = "secret_id"}
        requests == {[role_name |-> "role", secret_id_accessor |-> m, listed_on |-> m,
                      mount_point |-> "approle"] : m \in listed}
        refused == {d \in requests : RequestMount(d.mount_point) # d.listed_on}
        \* the mounts are visited in the order list_auth_methods names them
        sent == IF refused = {} THEN requests
                ELSE {d \in requests : d.listed_on = "approle/" \/ d \in refused}
        destroyed == {d.listed_on : d \in sent \ refused}
        valid(revoked) == {a \in DOMAIN tokens : tokens[a] \in {"valid", "error"}} \ revoked
        left == {m \in listed : m \notin destroyed}
    IN IF loop.raised
       THEN [status |-> "raised", reason |-> "lookup_failed", listed |-> keys,
             revoke_token |-> loop.revoke_token, destroy |-> {}, logout_revoke |-> FALSE,
             valid_after |-> valid(loop.revoke_token), secret_ids_after |-> listed]
       ELSE IF refused # {}
       THEN [status |-> "raised", reason |-> "destroy_failed", listed |-> keys,
             revoke_token |-> loop.revoke_token, destroy |-> sent, logout_revoke |-> FALSE,
             valid_after |-> valid(loop.revoke_token), secret_ids_after |-> left]
       ELSE [status |-> "ok", reason |-> "none", listed |-> keys,
             revoke_token |-> loop.revoke_token, destroy |-> sent, logout_revoke |-> TRUE,
             valid_after |-> valid(loop.revoke_token \cup {CurrentAccessor}),
             secret_ids_after |-> left]

VaultTokenRevokeCall ==
    /\ pc = "vault_token_revoke"
    /\ lib_call.fn = "vault_token_revoke"
    /\ lib_result.status = "unset"
    /\ lib_result' = VaultTokenRevokeResult(lib_call.tokens, lib_call.mounts)
    /\ UNCHANGED <<mainVars, envVars, faults_used, clusterVars, storageVars, localVars,
                   callVars, topoVars, s3_bucket, s3_written, lib_call, root_generation>>

\* The caller's token is valid; any other token may be absent, valid, expired since it
\* was listed, or unreadable; each approle mount may be absent, hold roles without
\* secret IDs, or hold a role with one secret ID.
RevokeInit ==
    /\ IdleOrchestration
    /\ IdleTopology
    /\ pc = "vault_token_revoke"
    /\ s3_bucket = <<>>
    /\ s3_written = <<>>
    /\ root_generation = NoRootGeneration
    /\ \E others \in [OtherAccessors -> {"absent", "valid", "expired", "error"}],
          mounts \in [ApproleMounts -> {"absent", "no_secret_id", "secret_id"}] :
         lib_call = [fn |-> "vault_token_revoke",
                     tokens |-> [a \in {CurrentAccessor} \cup OtherAccessors |->
                                   IF a = CurrentAccessor THEN "valid" ELSE others[a]],
                     mounts |-> mounts]
    /\ lib_result = [status |-> "unset"]

RevokeNext == VaultTokenRevokeCall

SpecRevoke == RevokeInit /\ [][RevokeNext]_vars

\* ================================================================== root PKI
\* Serial numbers of the root CA certificate and of other issuers: A, 10, AB and ABC
\* in hexadecimal.
SerialChoices == {10, 16, 171, 2748}

\* f"{rsa_cert.serial_number:x}".upper(): the hexadecimal digits, none leading.
RECURSIVE SerialHex(_)
SerialHex(serial_number) ==
    IF serial_number < 16 THEN <<serial_number>>
    ELSE Append(SerialHex(serial_number \div 16), serial_number % 16)

\* issuer_info["serial_number"].replace(":", "").upper(): the node lists a serial as
\* colon-separated bytes of two hexadecimal digits each.
IssuerSerialHex(serial_number) ==
    LET digits == SerialHex(serial_number)
    IN IF Len(digits) % 2 = 1 THEN <<0>> \o digits ELSE digits

\* setup_root_pki on a root-ca mount holding `issuers` (each known by its serial):
\* the CA is submitted, the issuer with the CA's serial made default, every issuer
\* with another serial deleted, and the default issuer named root-ca-issuer. The
\* last write has no issuer to address when no listed serial matched.
SetupRootPkiResult(root_ca_serial, issuers, default) ==
    LET list_issuers == issuers \cup {root_ca_serial}
        matching == {i \in list_issuers : IssuerSerialHex(i) = SerialHex(root_ca_serial)}
        def_issuer_ref == IF matching = {} THEN "None" ELSE "issuer"
        deleted == {i \in list_issuers : IssuerSerialHex(i) # SerialHex(root_ca_serial)}
        left == list_issuers \ deleted
        default_after == IF matching # {} THEN CHOOSE i \in matching : TRUE
                         ELSE IF default \in left THEN default ELSE 0
    IN [status |-> IF def_issuer_ref = "None" THEN "raised" ELSE "ok",
        issuers |-> left, deleted |-> deleted, default |-> default_after,
        root_ca_issuer |-> IF def_issuer_ref = "None" THEN 0 ELSE default_after]

SetupRootPkiCall ==
    /\ pc = "setup_root_pki"
    /\ lib_call.fn = "setup_root_pki"
    /\ lib_result.status = "unset"
    /\ lib_result' = SetupRootPkiResult(lib_call.root_ca_serial, lib_call.issuers,
                                         lib_call.default)
    /\ UNCHANGED <<mainVars, envVars, faults_used, clusterVars, storageVars, localVars,
                   callVars, topoVars, s3_bucket, s3_written, lib_call, root_generation>>

\* The mount may hold issuers of earlier root CAs and, on a re-run, the root CA's own;
\* one of them, or none (0), is the default.
PkiInit ==
    /\ IdleOrchestration
    /\ IdleTopology
    /\ pc = "setup_root_pki"
    /\ s3_bucket = <<>>
    /\ s3_written = <<>>
    /\ root_generation = NoRootGeneration
    /\ \E serial \in SerialChoices, issuers \in SUBSET SerialChoices :
         \E default \in issuers \cup {0} :
            lib_call = [fn |-> "setup_root_pki", root_ca_serial |-> serial,
                        issuers |-> issuers, default |-> default]
    /\ lib_result = [status |-> "unset"]

SpecPki == PkiInit /\ [][SetupRootPkiCall]_vars

\* ============================================================ secret sync
\* Keys a dict of the configured secret tree can have, in the order the dict holds them.
SecretKeys == <<"a", "a/", "b">>

\* if sub_key.endswith("/"): sub_key = sub_key[:-1] (the same for a listed secret).
StripSlash(sub_key) ==
    CASE sub_key = "a/" -> "a"
      [] sub_key = "b/" -> "b"
      [] sub_key = "c/" -> "c"
      [] OTHER -> sub_key

\* Faulty variant of DeleteExistingVaultSecrets: only the secret at the key goes.
DeleteOnlyTheKey(paths, key) == paths \ {key}

\* __delete_existing_vault_secrets: the secret at `key` is deleted, then every name
\* listed under it (a folder is listed with a trailing slash) is deleted the same way.
RECURSIVE DeleteExistingVaultSecrets(_, _)
DeleteExistingVaultSecrets(paths, key) ==
    LET deleted == paths \ {key}
        below == {q \in deleted : Len(q) > Len(key) /\ SubSeq(q, 1, Len(key)) = key}
        list_secrets == {IF Len(q) > Len(key) + 1 THEN <<q[Len(key) + 1], "/">>
                         ELSE <<q[Len(key) + 1], "">> : q \in below}
        name(listed) == IF listed[2] = "/" THEN StripSlash(listed[1]) ELSE listed[1]
    IN {q \in deleted :
          \A listed \in list_secrets :
             q \in DeleteExistingVaultSecrets(deleted, Append(key, name(listed)))}

\* __create_update_external_services on the configured tree: the writes it issues, in
\* order. A dict with at least one non-dict entry is written at its path; then each
\* dict entry is visited under the path extended by its stripped key.
CreateUpdateExternalServices(tree) ==
    LET root == <<"vault_secrets">>
        own(path, node, source) ==
            IF node.entries THEN <<[path |-> path, secret |-> source]>> ELSE <<>>
        child(i) ==
            LET k == SecretKeys[i]
                node == tree.dicts[k]
                path == Append(root, StripSlash(k))
            IN IF node.present
               THEN own(path, node, <<k>>)
                    \o (IF node.nested THEN <<[path |-> Append(path, StripSlash("c")),
                                                 secret |-> <<k, "c">>]>>
                        ELSE <<>>)
               ELSE <<>>
    IN own(root, tree, <<>>) \o child(1) \o child(2) \o child(3)

\* update_vault_secrets: the stale tree is deleted, then the configured tree written;
\* a later write to a path replaces the secret an earlier one put there.
UpdateVaultSecretsResult(tree, stored) ==
    LET writes == CreateUpdateExternalServices(tree)
        kept == DeleteExistingVaultSecrets(stored, <<"vault_secrets">>)
        last(path) == CHOOSE i \in 1..Len(writes) :
                         /\ writes[i].path = path
                         /\ \A j \in (i + 1)..Len(writes) : writes[j].path # path
        written == {writes[i] : i \in 1..Len(writes)}
    IN [status |-> "ok",
        secrets |-> {[path |-> q, secret |-> "stale"] :
                       q \in {k \in kept : \A w \in written : w.path # k}}
                    \cup {w \in written : w = writes[last(w.path)]}]

UpdateVaultSecretsCall ==
    /\ pc = "update_vault_secrets"
    /\ lib_call.fn = "update_vault_secrets"
    /\ lib_result.status = "unset"
    /\ lib_result' = UpdateVaultSecretsResult(lib_call.tree, lib_call.stored)
    /\ UNCHANGED <<mainVars, envVars, faults_used, clusterVars, storageVars, localVars,
                   callVars, topoVars, s3_bucket, s3_written, lib_call, root_generation>>

\* The configured tree: the root dict with or without entries of its own, each key
\* absent or a dict with or without entries and with or without a nested dict "c" that
\* has entries. The store holds whatever an earlier run with another tree left.
SecretsInit ==
    /\ IdleOrchestration
    /\ IdleTopology
    /\ pc = "update_vault_secrets"
    /\ s3_bucket = <<>>
    /\ s3_written = <<>>
    /\ root_generation = NoRootGeneration
    /\ \E entries \in BOOLEAN,
          dicts \in [{SecretKeys[i] : i \in 1..Len(SecretKeys)} ->
                       {[present |-> FALSE, entries |-> FALSE, nested |-> FALSE]}
                       \cup [present : {TRUE}, entries : BOOLEAN, nested : BOOLEAN]],
          stored \in SUBSET {<<"vault_secrets">>, <<"vault_secrets", "a">>,
                             <<"vault_secrets", "d">>, <<"vault_secrets", "d", "c">>} :
         lib_call = [fn |-> "update_vault_secrets",
                     tree |-> [entries |-> entries, dicts |-> dicts], stored |-> stored]
    /\ lib_result = [status |-> "unset"]

SpecSecrets == SecretsInit /\ [][UpdateVaultSecretsCall]_vars

\* ============================================================ storage backend
\* Byte strings: an ASCII byte and a byte no UTF-8 text contains.
Bytes == {65, 255}
Contents == UNION {[1..n -> Bytes] : n \in 0..MaxContentLen}
StorageKeys == {"vault_unseal_keys.yml", "vault_raft_snapshot.snap"}

\* An optional bytes argument: None, or a byte string (possibly empty).
NoContent == [given |-> FALSE, body |-> <<>>]
Given(body) == [given |-> TRUE, body |-> body]
MissingObject == [present |-> FALSE, body |-> <<>>]

\* bytes.decode("utf-8"): fails on a byte that is not part of UTF-8 text.
Utf8Decodable(body) == \A i \in 1..Len(body) : body[i] < 128

\* `if file_content:` -- None and the empty byte string are both false.
ContentIsTruthy(file_content) == file_content.given /\ file_content.body # <<>>

\* Faulty variant of BucketError: the bucket is not checked.
BucketErrorIgnored(bucket) == "none"

\* The bucket checks storage_ops makes before it reads or writes: "none" or the
\* ValueError it raises.
BucketError(bucket) ==
    IF ~bucket.skip_region_validation /\ ~bucket.location_matches THEN "region_mismatch"
    ELSE IF bucket.versioning # "Enabled" THEN "versioning_not_enabled"
    ELSE "none"

\* storage_ops(file_path, file_content, error_on_missing_file): what it returns or
\* raises, and the objects of the bucket afterwards.
StorageOps(bucket, file_path, file_content, error_on_missing_file) ==
    LET object == bucket.objects[file_path]
        failed(reason) == [status |-> "error", reason |-> reason, is_none |-> FALSE,
                           text |-> <<>>, wrote |-> FALSE, objects |-> bucket.objects]
    IN IF BucketError(bucket) # "none" THEN failed(BucketError(bucket))
       ELSE IF ContentIsTruthy(file_content)
       THEN [status |-> "ok", reason |-> "none", is_none |-> FALSE, text |-> <<>>,
             wrote |-> TRUE,
             objects |-> [bucket.objects EXCEPT
                             ![file_path] = [present |-> TRUE, body |-> file_content.body]]]
       ELSE IF ~object.present
            THEN IF ~error_on_missing_file
                 THEN [status |-> "ok", reason |-> "none", is_none |-> TRUE, text |-> <<>>,
                       wrote |-> FALSE, objects |-> bucket.objects]
                 ELSE failed("error_reading_file")
       ELSE IF ~Utf8Decodable(object.body) THEN failed("error_reading_file")
       ELSE [status |-> "ok", reason |-> "none", is_none |-> FALSE, text |-> object.body,
             wrote |-> FALSE, objects |-> bucket.objects]

\* A caller passes content for a key: storage_ops(file_path=k, file_content=b).
StorageWrite ==
    /\ pc = "storage"
    /\ \E k \in StorageKeys, b \in Contents :
          LET r == StorageOps(s3_bucket, k, Given(b), TRUE)
          IN /\ lib_call' = [fn |-> "storage_ops", op |-> "write", key |-> k, content |-> b]
             /\ lib_result' = r
             /\ s3_bucket' = [s3_bucket EXCEPT !.objects = r.objects]
             /\ s3_written' = IF r.status = "ok"
                              THEN [s3_written EXCEPT ![k] = Given(b)]
                              ELSE s3_written
    /\ UNCHANGED <<mainVars, envVars, faults_used, clusterVars, storageVars, localVars, callVars,
                   topoVars, root_generation>>

\* A caller reads a key: storage_ops(file_path=k), with or without error_on_missing_file.
StorageRead ==
    /\ pc = "storage"
    /\ \E k \in StorageKeys, error_on_missing_file \in BOOLEAN :
          LET r == StorageOps(s3_bucket, k, NoContent, error_on_missing_file)
          IN /\ lib_call' = [fn |-> "storage_ops", op |-> "read", key |-> k, content |-> <<>>]
             /\ lib_result' = r
    /\ UNCHANGED <<s3_bucket, s3_written>>
    /\ UNCHANGED <<mainVars, envVars, faults_used, clusterVars, storageVars, localVars, callVars,
                   topoVars, root_generation>>

Buckets ==
    [skip_region_validation : BOOLEAN, location_matches : BOOLEAN,
     versioning : {"Enabled", "Suspended"},
     objects : {[k \in StorageKeys |-> MissingObject]}]

StorageInit ==
    /\ pc = "storage"
    /\ IdleOrchestration
    /\ IdleTopology
    /\ s3_bucket \in Buckets
    /\ root_generation = NoRootGeneration
    /\ s3_written = [k \in StorageKeys |-> NoContent]
    /\ lib_call = [fn |-> "none"]
    /\ lib_result = [status |-> "unset"]

StorageNext ==
    \/ StorageWrite
    \/ StorageRead

SpecStorage == StorageInit /\ [][StorageNext]_vars

\* ================================================================ properties
\* main() is inside a vault_setup attempt.
InAttempt == pc \in VaultSetupSteps

\* C1: main() invokes vault_setup at most 5 times; an attempt that ends in
\* VaultOpsRetryError is followed by one 10-second wait and another attempt exactly
\* when fewer than 5 attempts were made; a successful attempt ends the loop; when the
\* 5th attempt ends in VaultOpsRetryError main() raises instead of returning.
C1_BoundedRetryLoop ==
    /\ attempts <= DefaultMaxVaultopsRetries
    /\ max_vaultops_retries = DefaultMaxVaultopsRetries - attempts
    /\ exc_kind = "retry" =>
          \/ /\ attempts < DefaultMaxVaultopsRetries
             /\ outcome = "running"
             /\ \/ pc = "sleep" /\ wait_seconds = MaxVaultopsRetryWait * (attempts - 1)
                \/ pc = "main" /\ wait_seconds = MaxVaultopsRetryWait * attempts
          \/ /\ attempts = DefaultMaxVaultopsRetries
             /\ pc = "done"
             /\ outcome = "raised"
             /\ wait_seconds = MaxVaultopsRetryWait * (attempts - 1)
    /\ pc = "sleep" => exc_kind = "retry"
    /\ InAttempt => wait_seconds = MaxVaultopsRetryWait * (attempts - 1)
    /\ outcome = "returned" => pc = "done" /\ exc_kind = "none" /\ raft_snapshot_saved
    /\ pc = "done" => outcome # "running"

C1_Witness ==
    /\ attempts = DefaultMaxVaultopsRetries
    /\ exc_kind = "retry"
    /\ outcome = "raised"
    /\ wait_seconds = MaxVaultopsRetryWait * (DefaultMaxVaultopsRetries - 1)

InconsistentReasons == {"unseal_keys_without_init", "tf_state_exists"}

\* C3 as stated: unseal keys or Terraform state in storage while no node is
\* initialized end the run at once, with no further attempt.
C3_InconsistentIsFatal ==
    exc_reason \in InconsistentReasons => pc = "done"

\* C3: unseal keys or Terraform state in storage while no node is initialized make
\* initialize_vault raise VaultOpsRetryError: no initialize call is issued, main()
\* waits and starts another attempt while fewer than 5 were made, and raises its
\* final error after the 5th.
C3_InconsistentIsRetried ==
    /\ exc_reason \in InconsistentReasons =>
          /\ exc_kind = "retry"
          /\ scenario = "inconsistent"
          /\ init_calls = <<>>
          /\ IF attempts < DefaultMaxVaultopsRetries
             THEN pc \in {"sleep", "main"} /\ outcome = "running"
             ELSE pc = "done" /\ outcome = "raised"
    /\ scenario = "inconsistent" =>
          /\ init_calls = <<>>
          /\ pc \notin VaultSetupSteps \ {"create_clients", "initialize_vault"}
          /\ outcome \notin {"returned", "exit0"}

C3_Witness ==
    /\ exc_reason = "unseal_keys_without_init"
    /\ attempts = DefaultMaxVaultopsRetries
    /\ outcome = "raised"
    /\ wait_seconds = MaxVaultopsRetryWait * (DefaultMaxVaultopsRetries - 1)

\* The property combinations with one *_critical flag set and its base extension off.
CriticalWithoutBase ==
    {[ClientCertificateProperties EXCEPT !.key_usage = FALSE],
     [ClientCertificateProperties EXCEPT !.extended_key_usage = FALSE],
     [ClientCertificateProperties EXCEPT !.basic_constraints = FALSE,
                                         !.basic_constraints_critical = TRUE],
     [ClientCertificateProperties EXCEPT !.subject_alternative_name = FALSE,
                                         !.subject_alternative_name_critical = TRUE],
     [ClientCertificateProperties EXCEPT !.subject_key_identifier_critical = TRUE],
     [ClientCertificateProperties EXCEPT !.authority_key_identifier_critical = TRUE]}

CertificateReasons ==
    {"authority_key_identifier_critical_without_base",
     "subject_key_identifier_critical_without_base", "key_usage_critical_without_base",
     "extended_key_usage_critical_without_base", "basic_constraints_critical_without_base",
     "subject_alternative_name_critical_without_base", "ca_expires_before_certificate"}

NothingWritten ==
    /\ stored_unseal_keys = 0
    /\ ~tf_state
    /\ ~raft_snapshot_saved

\* C5 as stated: any answer other than 'yes' leads to no initialize call.
C5_NotYesNeverInitializes ==
    (scenario = "fresh" /\ operator.answer # "yes") => init_calls = <<>>

\* C5: when the operator's answer, lower-cased, is not 'yes', no initialize call is
\* issued to any node, nothing is written to storage, and main() exits with status 0
\* without another attempt; 'YES' counts as 'yes'.
C5_DeclineIsSafeExit ==
    /\ (scenario = "fresh" /\ operator.answer \notin {"yes", "YES"}) =>
          /\ init_calls = <<>>
          /\ NothingWritten
          /\ outcome \in {"running", "exit0", "exit1", "raised"}
    /\ exc_reason = "operator_declined" =>
          /\ operator.answer \notin {"yes", "YES"}
          /\ exc_kind = "safe_exit"
          /\ pc = "done"
          /\ outcome = "exit0"
          /\ attempts = 1
          /\ wait_seconds = 0
          /\ init_calls = <<>>
          /\ NothingWritten

C5_Witness ==
    /\ exc_reason = "operator_declined"
    /\ operator.answer = "no"
    /\ outcome = "exit0"
    /\ max_vaultops_retries = DefaultMaxVaultopsRetries - 1

\* C6: a KeyboardInterrupt during an attempt makes main() exit with a non-zero status
\* at once: no wait follows it and no further attempt, whatever the attempts left.
C6_InterruptExitsNonZero ==
    exc_kind = "interrupt" =>
        /\ pc = "done"
        /\ outcome = "exit1"
        /\ wait_seconds = MaxVaultopsRetryWait * (attempts - 1)

C6_Witness ==
    /\ exc_kind = "interrupt"
    /\ outcome = "exit1"
    /\ attempts = 2
    /\ max_vaultops_retries = DefaultMaxVaultopsRetries - 2
    /\ wait_seconds = MaxVaultopsRetryWait

ValidOperator ==
    /\ Lower(operator.answer) = "yes"
    /\ operator.shares >= 1
    /\ operator.threshold >= 1
    /\ operator.shares >= operator.threshold

FreshBootstrapStart ==
    /\ scenario = "fresh"
    /\ pc = "main"
    /\ attempts = 0
    /\ faults_allowed = 0
    /\ root_ca_days_left >= ClientCertValidDays
    /\ ValidOperator

FreshBootstrapDone ==
    /\ pc = "done"
    /\ outcome = "returned"
    /\ init_calls = <<TopologyOrder[1]>>
    /\ stored_unseal_keys = operator.shares
    /\ \A n \in Nodes : initialized[n] /\ ~sealed[n]
    /\ unseal_calls = Nodes
    /\ root_generations >= 1
    /\ \A n \in Nodes : node_token[n] = "new_root"
    /\ join_calls = Nodes \ {TopologyOrder[1]}
    /\ RaftServerNodeIds(raft_servers) = Nodes
    /\ ValidateRaftNodesResult(raft_servers) = "ok"

NodePositions ==
    UNION {{<<s, i>> : i \in 1..Len(vault_servers[s].vault_nodes)} :
               s \in 1..Len(vault_servers)}
NodeAt(x) == vault_servers[x[1]].vault_nodes[x[2]]
NodeIdAt(x) == NodeId(vault_servers[x[1]].server_name, NodeAt(x).node_name)
PortsOf(node) == {node.node_port, node.cluster_port}
SharePort(x, y) == x # y /\ PortsOf(NodeAt(x)) \cap PortsOf(NodeAt(y)) # {}
SameServer(x, y) == x[1] = y[1]
OwnPortsEqual(x) == NodeAt(x).node_port = NodeAt(x).cluster_port
SameNodeId(x, y) == x # y /\ NodeIdAt(x) = NodeIdAt(y)
Resolved == server_raft_nodes.status # "unset"

\* C9 as stated: resolution fails whenever two nodes anywhere in the topology share
\* a port, and in a returned map all ports are pairwise distinct.
C9_PortsUniqueEverywhere ==
    Resolved =>
        /\ (\E x, y \in NodePositions : SharePort(x, y)) => server_raft_nodes.status = "error"
        /\ server_raft_nodes.status = "ok" =>
               \A n, m \in server_raft_nodes.nodes :
                   n # m => PortsOf(n) \cap PortsOf(m) = {}

\* C9: build_raft_server_nodes_map fails whenever two nodes of the same server share
\* a port, a node's node_port equals its cluster_port, or two nodes resolve to the
\* same node ID; in a returned map the ports are pairwise distinct within each server,
\* node_port differs from cluster_port, and all node IDs are pairwise distinct.
C9_PortsUniquePerServer ==
    Resolved =>
        /\ ( \/ \E x, y \in NodePositions : SameServer(x, y) /\ SharePort(x, y)
             \/ \E x \in NodePositions : OwnPortsEqual(x)
             \/ \E x, y \in NodePositions : SameNodeId(x, y) )
           => server_raft_nodes.status = "error"
        /\ server_raft_nodes.status = "ok" =>
              /\ Cardinality(server_raft_nodes.nodes) = Cardinality(NodePositions)
              /\ \A n, m \in server_raft_nodes.nodes :
                    /\ n.node_port # n.cluster_port
                    /\ n # m => n.node_id # m.node_id
                    /\ (n # m /\ n.server_name = m.server_name)
                           => PortsOf(n) \cap PortsOf(m) = {}

C9_Witness ==
    /\ server_raft_nodes.status = "ok"
    /\ Cardinality(server_raft_nodes.nodes) = 3
    /\ \E n, m \in server_raft_nodes.nodes :
          /\ n.server_name # m.server_name
          /\ n.node_port = m.node_port
          /\ n.cluster_port = m.cluster_port

Projected == retry_join_nodes.status # "unset"
OtherNodeIds(n) == RaftNodesList(server_raft_nodes.nodes) \ {n.node_id}

\* C10 as stated: a node without an explicit list gets all other node IDs.
C10_NoExplicitListMeansAllOthers ==
    retry_join_nodes.status = "ok" =>
        \A n \in server_raft_nodes.nodes :
            (n.explicit_retry_join_nodes.is_none \/ n.explicit_retry_join_nodes.ids = {})
                => retry_join_nodes.map[n.node_id] = OtherNodeIds(n)

\* C10: the retry-join map resolved for a node A is all other node IDs when A's
\* explicit list is an empty mapping (the default), is empty when A's explicit list
\* is None, is exactly the listed IDs when the list is non-empty, and never contains
\* A; resolution fails exactly when a non-empty list names an ID that is not another
\* node of the topology.
C10_RetryJoinProjection ==
    Projected =>
        LET bad == {n \in server_raft_nodes.nodes :
                       /\ ~n.explicit_retry_join_nodes.is_none
                       /\ \E id \in n.explicit_retry_join_nodes.ids : id \notin OtherNodeIds(n)}
        IN /\ retry_join_nodes.status = "error" <=> bad # {}
           /\ retry_join_nodes.status = "ok" =>
                 \A n \in server_raft_nodes.nodes :
                    LET e == n.explicit_retry_join_nodes
                        resolved == retry_join_nodes.map[n.node_id]
                    IN /\ n.node_id \notin resolved
                       /\ e.is_none => resolved = {}
                       /\ (~e.is_none /\ e.ids = {}) => resolved = OtherNodeIds(n)
                       /\ (~e.is_none /\ e.ids # {}) => resolved = e.ids

C10_Witness ==
    /\ retry_join_nodes.status = "ok"
    /\ \E n, m \in server_raft_nodes.nodes :
          /\ n.explicit_retry_join_nodes.is_none
          /\ retry_join_nodes.map[n.node_id] = {}
          /\ m.explicit_retry_join_nodes = [is_none |-> FALSE, ids |-> {"b-n1"}]
          /\ retry_join_nodes.map[m.node_id] = {"b-n1"}

\* ---------------------------------------------------- properties of storage
\* C11: after b was written at key k through the storage backend, reading k returns
\* content identical to b, for every byte string b including the empty one.
C11_StorageRoundTrip ==
    (lib_call.fn = "storage_ops" /\ lib_call.op = "read" /\ s3_written[lib_call.key].given) =>
        /\ lib_result.status = "ok"
        /\ ~lib_result.is_none
        /\ lib_result.text = s3_written[lib_call.key].body

\* ---- certificate component
CertificateCall == lib_call.fn = "generate_x590_certificate"
PropertiesAccepted ==
    GenerateX590CertificateError(lib_call.properties, lib_call.has_ca,
                                 lib_call.ca_days_left) = "none"
ExpectedOfCall == ExpectedProperties(lib_call.properties, lib_call.has_ca)
\* The compared properties in which the supplied certificate differs from the expectation.
Differing ==
    {f \in PropertyNames : lib_call.existing.certificate.properties[f] # ExpectedOfCall[f]}
\* The supplied certificate conforms to the expectation and is currently valid.
ConformingAndValid ==
    /\ lib_call.existing.kind = "certificate"
    /\ PropertiesAccepted
    /\ Differing = {}
    /\ lib_call.existing.certificate.not_valid_before <= 0
    /\ lib_call.existing.certificate.not_valid_after >= 0
    /\ lib_call.has_ca =>
           lib_call.existing.certificate.not_valid_after <= lib_call.ca_days_left

\* C12: called twice with the same properties, key and CA and an existing certificate
\* that conforms and is currently valid, generate_x590_certificate reports
\* need_to_generate = false both times and returns the existing certificate unchanged.
C12_ConformingCertificateIsKept ==
    (CertificateCall /\ ConformingAndValid) =>
        \A i \in 1..Len(lib_result.results) :
            /\ lib_result.results[i].status = "ok"
            /\ ~lib_result.results[i].need_to_generate
            /\ lib_result.results[i].certificate = lib_call.existing.certificate

\* C13: an existing certificate that differs from the expectation in a compared
\* property (subject, issuer, public key, value or criticality of an optional
\* extension) gives need_to_generate = true with a reason naming a differing property,
\* and the returned certificate is newly signed with the expected properties.
C13_DifferingCertificateIsReplaced ==
    (CertificateCall /\ lib_call.existing.kind = "certificate" /\ PropertiesAccepted
       /\ Differing # {}) =>
        \A i \in 1..Len(lib_result.results) :
            /\ lib_result.results[i].status = "ok"
            /\ lib_result.results[i].need_to_generate
            /\ lib_result.results[i].reason \in Differing
            /\ lib_result.results[i].certificate.properties = ExpectedOfCall
            /\ lib_result.results[i].certificate.serial = "random_serial_number"

C13_Witness ==
    /\ CertificateCall
    /\ lib_call.existing.kind = "certificate"
    /\ PropertiesAccepted
    /\ Differing = {"subject_alternative_name_critical"}
    /\ Len(lib_result.results) = MaxCalls
    /\ lib_result.results[1].need_to_generate

\* ---- private key component
PrivateKeyCall == lib_call.fn = "generate_private_key" /\ lib_result.status # "unset"
\* The supplied content parses under the passphrase and the key has the requested
\* size and public exponent.
SuppliedKeyConforms ==
    /\ LoadPemPrivateKey(lib_call.private_key_content, lib_call.private_key_passphrase).status = "ok"
    /\ lib_call.private_key_content.key.key_size = lib_call.key_size
    /\ lib_call.private_key_content.key.e = lib_call.public_exponent

\* C14: generate_private_key returns the supplied key with need_to_generate = false
\* exactly when the content parses under the passphrase and has the requested size and
\* exponent; in every other case it returns a fresh key of the requested size and
\* exponent with need_to_generate = true and a non-empty reason.
C14_KeyKeptIffConforming ==
    PrivateKeyCall =>
        IF SuppliedKeyConforms
        THEN /\ lib_result.status = "ok"
             /\ ~lib_result.need_to_generate
             /\ lib_result.private_key = lib_call.private_key_content.key
        ELSE /\ lib_result.status = "ok"
             /\ lib_result.need_to_generate
             /\ lib_result.reason # ""
             /\ lib_result.private_key = FreshKey(lib_call.key_size, lib_call.public_exponent)

\* ---- root-token math
\* Bit k of the byte n.
Bit(n, k) == (n \div (2 ^ k)) % 2
\* x is the exclusive or of the bytes a and b.
IsXorOf(x, a, b) == \A k \in 0..7 : Bit(x, k) = (Bit(a, k) + Bit(b, k)) % 2

\* C15: for a token T and an OTP O of equal length, _calculate_new_root applied to the
\* base64 text of T xor O and to O returns T, and byte i of the result is the xor of
\* byte i of the decoded text and byte i of O.
C15_RootTokenMath ==
    (lib_call.fn = "_calculate_new_root" /\ lib_result.status # "unset") =>
        /\ lib_result.status = "ok"
        /\ lib_result.token = lib_call.token
        /\ Len(lib_result.decoded) = Len(lib_call.otp)
        /\ \A i \in 1..Len(lib_result.token) :
               IsXorOf(lib_result.token[i], lib_result.decoded[i], lib_call.otp[i])

C15_Witness ==
    /\ lib_call.fn = "_calculate_new_root"
    /\ lib_call.token = <<48, 90, 127>>
    /\ lib_call.otp = <<127, 48, 90>>
    /\ lib_result.status = "ok"
    /\ lib_result.token = <<48, 90, 127>>

\* ---- unseal material
\* C16: once the initialize call has succeeded, the unseal material it returned is in
\* storage in every later state, also when the attempt fails afterwards.
C16_InitializedImpliesKeysStored ==
    init_calls # <<>> => stored_unseal_keys = operator.shares

\* C17: an initialize call is issued only when no node reports initialized, storage
\* holds neither unseal keys nor a Terraform state, the operator answered yes and
\* entered shares >= 1, threshold >= 1, shares >= threshold; it goes to the first node
\* of the topology order and no second call follows.
C17_InitializeOnlyWhenAllowed ==
    [][init_calls' # init_calls =>
          /\ pc = "initialize_vault"
          /\ \A n \in Nodes : ~initialized[n]
          /\ stored_unseal_keys = 0
          /\ ~tf_state
          /\ Lower(operator.answer) = "yes"
          /\ operator.shares >= 1
          /\ operator.threshold >= 1
          /\ operator.shares >= operator.threshold
          /\ init_calls = <<>>
          /\ init_calls' = <<TopologyOrder[1]>>]_vars

C17_Witness ==
    /\ pc = "unseal_vault"
    /\ attempts = 1
    /\ init_calls = <<TopologyOrder[1]>>
    /\ operator.shares = MaxShares
    /\ operator.threshold = 1

\* The steps of an attempt that follow initialize_vault.
AfterInitializeVault == VaultSetupSteps \ {"create_clients", "initialize_vault"}

\* C18: after initialize_vault returned normally from initializing the cluster, storage
\* holds exactly the material the initialize call returned, in every later step that
\* reads the unseal keys.
C18_ReturnedMaterialIsStored ==
    (init_calls # <<>> /\ pc \in AfterInitializeVault) =>
        /\ HasUnsealKeys(stored_unseal_keys)
        /\ stored_unseal_keys = operator.shares

C18_Witness ==
    /\ init_calls # <<>>
    /\ pc = "root_token"
    /\ attempts = 1
    /\ stored_unseal_keys = MaxShares

\* ---- unseal
\* C19 as stated: unseal_vault submits keys only to initialized and sealed nodes and
\* does not complete while a node it submitted keys to still reports sealed.
C19_UnsealVerifiesSealStatus ==
    [][(pc = "unseal_vault" /\ pc' = "find_ready") =>
          /\ unseal_calls' \ unseal_calls \subseteq {n \in Nodes : initialized[n] /\ sealed[n]}
          /\ \A n \in Nodes : (initialized[n] /\ sealed[n]) => ~sealed'[n]]_vars

\* C19: unseal_vault submits keys only to initialized and sealed nodes, a node opens
\* only after such a submission, and unseal_vault completes with a node still sealed
\* exactly when the stored keys do not reach the threshold (it logs a warning).
C19_UnsealSubmitsOnlyToSealed ==
    [][pc = "unseal_vault" =>
          /\ unseal_calls' \ unseal_calls \subseteq {n \in Nodes : initialized[n] /\ sealed[n]}
          /\ \A n \in Nodes : (sealed[n] /\ ~sealed'[n]) => (initialized[n] /\ n \in unseal_calls')
          /\ pc' = "find_ready" =>
                 \A n \in Nodes : (initialized[n] /\ sealed[n]) =>
                     /\ n \in unseal_calls'
                     /\ sealed'[n] <=> stored_unseal_keys < secret_threshold]_vars

C19_Witness ==
    /\ pc = "find_ready"
    /\ exc_kind = "none"
    /\ attempts = 1
    /\ \E n \in unseal_calls : initialized[n] /\ sealed[n]

\* ---- Raft membership validation
\* The Raft member IDs equal the topology node IDs and every member advertises the
\* host:port of the cluster address computed for its node.
MembersMatchTopology ==
    /\ RaftServerNodeIds(raft_servers) = Nodes
    /\ \A s \in raft_servers : s.address = ExpectedClusterAddress(s.node_id)

\* C20: _validate_raft_nodes returns normally exactly when the member IDs equal the
\* topology IDs and every member address is the expected one; every mismatch raises
\* VaultOpsRetryError.
C20_ValidateIffMembersMatch ==
    [][(pc = "validate_raft_nodes" /\ faults_used' = faults_used) =>
          IF MembersMatchTopology
          THEN pc' = "admin_user" /\ exc_kind' = exc_kind
          ELSE /\ pc' # "admin_user"
               /\ exc_kind' = "retry"
               /\ exc_reason' \in {"member_not_in_inventory", "cluster_address_mismatch",
                                   "nodes_not_in_raft_servers"}]_vars

C20_Witness ==
    /\ pc = "admin_user"
    /\ MembersMatchTopology
    /\ join_calls # {}
    /\ attempts = 2

\* ---- Raft membership changes
\* C21: _add_raft_nodes calls join_raft_cluster exactly on the topology nodes that are
\* missing from the Raft configuration it read, each on the node's own client with the
\* API address of the member flagged leader; members get no join call, and joins come
\* after the removals of the same raft_ops run.
C21_JoinExactlyMissingNodes ==
    [][/\ (pc = "add_raft_nodes" /\ faults_used' = faults_used) =>
              /\ join_raft_cluster' =
                     {[client |-> n, leader_api_addr |-> ApiAddr(leader)] :
                          n \in Nodes \ RaftServerNodeIds(raft_servers)}
              /\ leader \in RaftServerNodeIds(raft_servers) \cap Nodes
              /\ join_calls' = join_calls \cup {c.client : c \in join_raft_cluster'}
              /\ remove_calls' = remove_calls
       /\ (join_calls' # join_calls \/ join_raft_cluster' # join_raft_cluster) =>
              pc = "add_raft_nodes"
       /\ remove_calls' # remove_calls =>
              /\ pc = "remove_raft_nodes"
              /\ pc' = "add_raft_nodes"
              /\ join_calls' = join_calls]_vars

C21_Witness ==
    /\ pc = "validate_raft_nodes"
    /\ join_raft_cluster # {}
    /\ Cardinality(join_raft_cluster) < NumNodes - 1
    /\ \A c \in join_raft_cluster : c.leader_api_addr = ApiAddr(leader) /\ c.client # leader

\* C22: _remove_raft_nodes calls remove_raft_node exactly for the member IDs that are
\* not in the topology; a member whose ID is in the topology is never removed,
\* whatever address it advertises.
C22_RemoveExactlyUnknownMembers ==
    [][/\ (pc = "remove_raft_nodes" /\ faults_used' = faults_used) =>
              /\ remove_calls' = remove_calls \cup (RaftServerNodeIds(raft_servers) \ Nodes)
              /\ raft_servers' = {s \in raft_servers : s.node_id \in Nodes}
       /\ remove_calls' \cap Nodes = {}
       /\ \A s \in raft_servers : s.node_id \in Nodes => s \in raft_servers']_vars

C22_Witness ==
    /\ pc = "add_raft_nodes"
    /\ remove_calls = {StaleNodeId}
    /\ RaftServerNodeIds(raft_servers) \subseteq Nodes
    /\ ready_node \in RaftServerNodeIds(raft_servers)

\* ---- root token rotation
\* C23: a new root token is generated on the ready node exactly when unseal keys are
\* stored at the rotation step; without them no root-generation call is made and the
\* token handed to the node clients is the session token of the HA client.
C23_RootGeneratedIffKeysStored ==
    [][/\ (pc = "root_token" /\ faults_used' = faults_used) =>
              IF stored_unseal_keys > 0
              THEN pc' = "update_clients" =>
                       /\ root_generations' = root_generations + 1
                       /\ vault_sudo_token' = "new_root"
              ELSE /\ root_generations' = root_generations
                   /\ pc' = "update_clients" => vault_sudo_token' = "ha_session"
       /\ root_generations' # root_generations => (pc = "root_token" /\ stored_unseal_keys > 0)
       /\ (pc = "update_clients" /\ faults_used' = faults_used) =>
              \A n \in Nodes : node_token'[n] \in {node_token[n], vault_sudo_token}]_vars

C23_Witness ==
    /\ pc = "remove_raft_nodes"
    /\ stored_unseal_keys = 0
    /\ root_generations = 0
    /\ vault_sudo_token = "ha_session"
    /\ \E n \in Nodes : node_token[n] = "ha_session"

\* ------------------------------------------------------------------ C24, C25
RootGenCalled == lib_call.fn = "regenerate_root_token" /\ lib_result.status # "unset"

RootGenRequests(op) == {i \in 1..Len(lib_result.calls) : lib_result.calls[i].op = op}

RootGenConnectionLost == lib_result.status = "raised" /\ lib_result.kind = "generic"

RootGenStoredKeys == Len(lib_call.unseal_keys.keys)

\* C24: with fewer stored keys than the threshold regenerate_root_token raises the
\* retryable error having neither cancelled nor started a generation; otherwise it
\* starts one, submits the stored keys one at a time under that generation's nonce,
\* stops when the progress equals the threshold (no key is sent after it), and returns
\* a token only when the last response completed the generation with an encoded token.
C24_RootGenerationThreshold ==
    (RootGenCalled /\ ~lib_call.unseal_keys.is_none /\ ~RootGenConnectionLost) =>
        LET calls == lib_result.calls
            starts == RootGenRequests("start_root_token_generation")
            submissions == RootGenRequests("generate_root")
        IN IF RootGenStoredKeys < lib_call.required
           THEN /\ lib_result.status = "raised"
                /\ lib_result.kind = "retry"
                /\ lib_result.reason = "not_enough_unseal_keys"
                /\ calls = <<[op |-> "read_root_generation_progress"]>>
           ELSE /\ Cardinality(starts) = 1
                /\ Cardinality(submissions) = lib_call.required
                /\ \A i \in submissions : \A j \in starts :
                     /\ j < i
                     /\ calls[i].nonce = calls[j].nonce
                     /\ calls[i].started
                     /\ calls[i].progress < lib_call.required
                     /\ calls[i].key = lib_call.unseal_keys.keys[calls[i].progress + 1]
                /\ lib_result.status = "ok"
                /\ lib_result.new_root # <<>>
                /\ calls[Len(calls)].op = "generate_root"
                /\ calls[Len(calls)].progress + 1 = lib_call.required

\* More keys are stored than the threshold needs and a token was returned.
C24_Witness ==
    /\ RootGenCalled
    /\ lib_result.status = "ok"
    /\ RootGenStoredKeys > lib_call.required

\* C25: a generation left in progress does not block the next attempt: it is cancelled
\* and a new one started; start is never requested while a generation is in progress,
\* and keys are submitted only under the nonce of the generation this attempt started.
C25_StaleGenerationIsReplaced ==
    RootGenCalled =>
        LET calls == lib_result.calls
            starts == RootGenRequests("start_root_token_generation")
            cancels == RootGenRequests("cancel_root_generation")
        IN /\ \A j \in starts : ~calls[j].started
           /\ \A j \in starts : lib_result.before.started => \E c \in cancels : c < j
           /\ \A i \in RootGenRequests("generate_root") :
                \E j \in starts : j < i /\ calls[i].nonce = calls[j].nonce
                                  /\ calls[j].nonce # lib_result.before.nonce
           /\ (lib_result.status = "raised" /\ lib_result.kind = "retry") =>
                  lib_result.reason \in {"unseal_keys_not_found", "not_enough_unseal_keys"}

\* An attempt that found a generation in progress has returned a token.
C25_Witness ==
    /\ RootGenCalled
    /\ lib_result.before.started
    /\ lib_result.before.progress > 0
    /\ lib_result.status = "ok"
    /\ lib_result.n = 2

\* ------------------------------------------------------------------ C26
UpdateClientsCompleted == pc = "update_clients" /\ pc' = "remove_raft_nodes"

\* C26 (corrected): when update_client_with_root_token completes, every initialized and
\* unsealed node's session carries the new token and is_authenticated() has been called
\* on it, whatever it answered; sealed or uninitialized nodes keep their token and are
\* not asked.
C26_TokenSetAndAuthenticationLogged ==
    [][UpdateClientsCompleted =>
         \A n \in Nodes :
            IF initialized[n] /\ ~sealed[n]
            THEN /\ node_token'[n] = vault_sudo_token
                 /\ is_authenticated'[n] \in {"true", "false", "raised"}
            ELSE /\ node_token'[n] = node_token[n]
                 /\ is_authenticated'[n] = is_authenticated[n]]_vars

\* C26 as stated: the step completes only when every updated session was verified as
\* authenticated.
C26_CompletesOnlyWhenAuthenticated ==
    [][UpdateClientsCompleted =>
         \A n \in Nodes :
            (initialized[n] /\ ~sealed[n]) =>
                /\ node_token'[n] = vault_sudo_token
                /\ is_authenticated'[n] = "true"]_vars

\* The step has completed with a session that did not authenticate next to a node
\* that was skipped.
C26_Witness ==
    /\ pc = "remove_raft_nodes"
    /\ \E n \in Nodes : is_authenticated[n] \in {"false", "raised"}
                        /\ node_token[n] = vault_sudo_token
    /\ \E n \in Nodes : sealed[n] /\ node_token[n] = "none"

\* ------------------------------------------------------------------ C27, C28
RevokeCompleted == lib_call.fn = "vault_token_revoke" /\ lib_result.status = "ok"

C28_SecretIdsDestroyedOnTheirMount ==
    (lib_call.fn = "vault_token_revoke" /\ lib_result.status # "unset") =>
        \A d \in lib_result.destroy : RequestMount(d.mount_point) = d.listed_on

\* ------------------------------------------------------------------ C29, C30
VaultSetupReturned ==
    pc = "done" /\ outcome = "returned" /\ exc_kind = "none" /\ raft_snapshot_saved

C30_NoRequestWithRevokedToken ==
    /\ \A r \in ha_requests :
         /\ r.token = "valid"
         /\ r.step = "vault_secrets" => r.login
         /\ r.step = "raft_snapshot" => ~r.login
    /\ pc = "vault_secrets" => ha_token = "revoked"
    /\ pc = "raft_snapshot" => ha_token = "valid"

\* A run without unseal keys, whose revoke step revoked the HA client's own session,
\* has logged in again for the secret sync and taken the snapshot.
C30_Witness ==
    /\ VaultSetupReturned
    /\ vault_sudo_token = "ha_session"
    /\ [step |-> "vault_secrets", token |-> "valid", login |-> TRUE] \in ha_requests
    /\ [step |-> "raft_snapshot", token |-> "valid", login |-> FALSE] \in ha_requests

\* ------------------------------------------------------------------ C31, C32
AdminPolicyStepDone == pc = "admin_user" /\ pc' = "root_pki"

\* C31: add_admin_user_policy runs in an attempt exactly when unseal keys are stored
\* when the admin-policy step is reached; without them the policy, the userpass mount
\* and the admin user are left as they were.
C31_AdminPolicyIffKeysStored ==
    [][AdminPolicyStepDone =>
         IF stored_unseal_keys > 0
         THEN admin_user_calls' = admin_user_calls + 1 /\ admin_user_exists'
         ELSE admin_user_calls' = admin_user_calls /\ admin_user_exists' = admin_user_exists]_vars

\* A run without stored keys has passed the admin-policy step without a call.
C31_Witness ==
    /\ pc = "root_pki"
    /\ stored_unseal_keys = 0
    /\ admin_user_calls = 0
    /\ admin_user_exists

StepsBeforeRootPki ==
    {"create_clients", "initialize_vault", "unseal_vault", "find_ready", "root_token",
     "update_clients", "remove_raft_nodes", "add_raft_nodes", "validate_raft_nodes", "admin_user"}

\* C32: in an attempt that has unseal keys in storage the HA client does not log in
\* before add_admin_user_policy has completed: up to that step only the node clients
\* and the generated root token are used, and the first login happens in setup_root_pki.
C32_NoHaLoginBeforeAdminUser ==
    /\ (stored_unseal_keys > 0 /\ pc \in StepsBeforeRootPki) => ha_token = "none"
    /\ (stored_unseal_keys > 0 /\ ha_token # "none") => (admin_user_exists /\ admin_user_calls >= 1)

\* An attempt with stored keys has made its first HA-client login in setup_root_pki.
C32_Witness ==
    /\ pc = "terraform"
    /\ stored_unseal_keys > 0
    /\ ha_token = "valid"
    /\ [step |-> "root_pki", token |-> "valid", login |-> TRUE] \in ha_requests
    /\ admin_user_calls = 1

\* ------------------------------------------------------------------ C33
\* C33: after setup_root_pki the root-ca mount holds no issuer with a serial other than
\* the root CA's, the issuer with the root CA's serial is the default and is named
\* root-ca-issuer, and that issuer is never deleted, whatever the mount held before.
C33_OnlyRootCaIssuerLeft ==
    (lib_call.fn = "setup_root_pki" /\ lib_result.status # "unset") =>
        /\ lib_call.root_ca_serial \notin lib_result.deleted
        /\ lib_result.status = "ok" =>
              /\ lib_result.issuers = {lib_call.root_ca_serial}
              /\ lib_result.default = lib_call.root_ca_serial
              /\ lib_result.root_ca_issuer = lib_call.root_ca_serial

\* ------------------------------------------------------------------ C34
SecretsSynced == lib_call.fn = "update_vault_secrets" /\ lib_result.status = "ok"

\* The dict nodes of the configured tree that have a non-dict entry, each with the
\* slash-joined path of its keys.
ConfiguredSecrets ==
    LET tree == lib_call.tree
        keys == {SecretKeys[i] : i \in 1..Len(SecretKeys)}
    IN (IF tree.entries THEN {[path |-> <<"vault_secrets">>, secret |-> <<>>]} ELSE {})
       \cup {[path |-> <<"vault_secrets", StripSlash(k)>>, secret |-> <<k>>] :
               k \in {x \in keys : tree.dicts[x].present /\ tree.dicts[x].entries}}
       \cup {[path |-> <<"vault_secrets", StripSlash(k), "c">>, secret |-> <<k, "c">>] :
               k \in {x \in keys : tree.dicts[x].present /\ tree.dicts[x].nested}}

SecretPathsDistinct ==
    \A x, y \in ConfiguredSecrets : x.path = y.path => x = y

\* C34 (corrected): when no two dicts of the configured tree share a path once their
\* keys are stripped of slashes, the store after update_vault_secrets holds exactly one
\* secret per dict that has non-dict entries, at its slash-joined path and with those
\* entries, and nothing a previous run left.
C34_StoreMirrorsDistinctTree ==
    (SecretsSynced /\ SecretPathsDistinct) => lib_result.secrets = ConfiguredSecrets

\* C34 as stated: the store mirrors the configured tree, whatever its keys.
C34_StoreMirrorsTree ==
    SecretsSynced => lib_result.secrets = ConfiguredSecrets

\* A tree with entries at three levels has replaced a stale tree two levels deep.
C34_Witness ==
    /\ SecretsSynced
    /\ SecretPathsDistinct
    /\ lib_call.tree.entries
    /\ lib_call.tree.dicts["a/"].nested
    /\ lib_call.tree.dicts["b"].entries
    /\ <<"vault_secrets", "d", "c">> \in lib_call.stored
    /\ <<"vault_secrets", "a">> \in lib_call.stored

\* ------------------------------------------------------------------ C35
\* A node whose health reports initialized, not sealed and not standby.
HealthQualifies(n) == initialized[n] /\ ~sealed[n] /\ leader = n

C36_LoginExactlyWhenUnauthenticated ==
    [][\A r \in ha_requests' \ ha_requests :
          /\ r.login <=> ha_token # "valid"
          /\ r.token = "valid"
          /\ ha_token' = "valid"
          /\ r.login => admin_user_exists]_vars

\* One attempt has used the HA client on first use (login), again while the session
\* was valid (no login) and after it was revoked (login).
C36_Witness ==
    /\ attempts = 1
    /\ [step |-> "root_token", token |-> "valid", login |-> TRUE] \in ha_requests
    /\ [step |-> "root_pki", token |-> "valid", login |-> FALSE] \in ha_requests
    /\ [step |-> "vault_secrets", token |-> "valid", login |-> TRUE] \in ha_requests

\* ------------------------------------------------------------------ C37
\* The bucket does not report versioning Enabled, or region validation is not skipped
\* and its location is not the configured region.
BucketRefused ==
    \/ s3_bucket.versioning # "Enabled"
    \/ ~s3_bucket.skip_region_validation /\ ~s3_bucket.location_matches

\* C37: storage_ops issues no object read or write to a bucket that does not report
\* versioning Enabled or, unless region validation is skipped, is not in the configured
\* region: the call raises for the bucket and the bucket's contents stay as they were.
C37_NoObjectRequestOnRefusedBucket ==
    [][(BucketRefused /\ lib_call' # lib_call) =>
          /\ lib_call'.fn = "storage_ops"
          /\ lib_result'.status = "error"
          /\ lib_result'.reason \in {"region_mismatch", "versioning_not_enabled"}
          /\ ~lib_result'.wrote
          /\ s3_bucket' = s3_bucket
          /\ s3_written' = s3_written]_vars

\* A write was refused for versioning alone, region validation being skipped.
C37_Witness ==
    /\ lib_call.fn = "storage_ops"
    /\ lib_call.op = "write"
    /\ s3_bucket.skip_region_validation
    /\ ~s3_bucket.location_matches
    /\ s3_bucket.versioning = "Suspended"
    /\ lib_result.reason = "versioning_not_enabled"
    /\ \A k \in StorageKeys : ~s3_bucket.objects[k].present

\* ---- C38
\* C38: every CA-signed certificate generate_x590_certificate returns ends no later
\* than the issuing CA certificate. A request that ends after the CA is raised as a
\* retry error and signs nothing, and an existing certificate is returned for reuse
\* only when it is current and ends no later than the CA.
CaSignedCall == lib_call.fn = "generate_x590_certificate" /\ lib_call.has_ca

C38_Rejected ==
    /\ CaSignedCall
    /\ lib_call.properties.not_valid_after > lib_call.ca_days_left
    /\ Len(lib_result.results) > 0
    /\ lib_result.results[1].reason = "ca_expires_before_certificate"

\* ---- C39
\* C39: the unseal material in storage is written at most once: it changes only in
\* initialize_vault, in a call that found no node initialized and no unseal material
\* in storage, and material that is there is never replaced or removed, in any
\* attempt and whatever state an earlier run left.
C39_UnsealMaterialWriteOnce ==
    [][/\ HasUnsealKeys(stored_unseal_keys) => stored_unseal_keys' = stored_unseal_keys
       /\ stored_unseal_keys' # stored_unseal_keys =>
              /\ pc = "initialize_vault"
              /\ \A n \in Nodes : ~initialized[n]
              /\ ~HasUnsealKeys(stored_unseal_keys)
              /\ stored_unseal_keys' = operator.shares
              /\ init_calls' = Append(init_calls, TopologyOrder[1])]_vars

\* The material written by the first attempt is still there in a later attempt.
C39_Witness ==
    /\ scenario = "fresh"
    /\ attempts > 1
    /\ init_calls # <<>>
    /\ HasUnsealKeys(stored_unseal_keys)
    /\ stored_unseal_keys = operator.shares

====
